---------------------------- MODULE Spec2Model ----------------------------
(***************************************************************************)
(* Export automation of ableton-mcp: gui_automation.py (the verified       *)
(* export sequence safe_export_with_filename, render-range entry,          *)
(* select_text_in_field, verify_in_dialog, select_all_and_delete) and its  *)
(* caller core.export_track (Spec); core.export_arrangement                *)
(* (SpecArrangement); the batch path AbletonExportAutomation.export_track  *)
(* (SpecBatch).                                                            *)
(*                                                                         *)
(* One behaviour is one call of one entry point.  Every automation         *)
(* primitive the code calls (an osascript run, a mouse click) is one step; *)
(* the front window of Live is environment state that may change between   *)
(* any two steps (EnvChange).  The three statements of the AppleScript of  *)
(* _type_filename_in_save_dialog are separate steps, because the window    *)
(* can change while that script runs (it contains a delay).                *)
(*                                                                         *)
(* A window title is a sequence of text fragments; "x in title" of the     *)
(* code is Contains(x, title), a search for a contiguous run of fragments. *)
(***************************************************************************)
EXTENDS Naturals, Integers, Sequences, FiniteSets, TLC

VARIABLES
    pc,         \* position of the running call
    window,     \* title of Live's front window (environment)
    attempt,    \* _activate_and_verify: the loop variable attempt (0 outside the loop)
    waited,     \* completion wait: the local counter waited
    escLeft,    \* _abort_and_escape: iterations left
    escThen,    \* where the running _abort_and_escape returns to
    branch,     \* branch taken after the confirm step
    tfResult,   \* return value of _type_filename_in_save_dialog
    lastCheck,  \* title seen by the window-title check that immediately
                \* precedes the next UI action; NoCheck when another
                \* automation call came in between
    lengthBars, \* set_export_render_range: length_bars
    ui,         \* the UI actions issued so far
    obs,        \* what the polls of the completion wait observed
    out,        \* the outcome of the call
    osc,        \* the OSC client: its dictionaries, the messages on their
                \* way to it, the running query
    cli,        \* the command-line process: its arguments, what it has
                \* called, its exit code
    app         \* a function applied on its own: its argument, its results

vars == <<pc, window, attempt, waited, escLeft, escThen,
          branch, tfResult, lastCheck, lengthBars, ui, obs, out, osc, cli, app>>

---------------------------------------------------------------------------
(* Program constants *)

MaxRetries == 5
MaxWait == 120
AbortEscapes == 3

(* Bounds of the model *)

MaxBars == 2
MaxTracks == 2
MaxChildren == 3
MaxClips == 2

---------------------------------------------------------------------------
(* Window titles *)

SAVE_DIALOG_NAME == <<"Save">>
EXPORT_DIALOG_PREFIX == <<"Export">>
SAFE_DIALOG_WINDOWS == {<<"Save">>, <<"Export", " Audio/Video">>, <<"Export">>}

T_Main == << >>
T_Save == <<"Save">>
T_SaveAs == <<"Save", " As">>
T_Export == <<"Export", " Audio/Video">>
T_Both == <<"Save", " ", "Export", " Preset">>
T_Browser == <<"Browser">>
T_Timeout == <<"Timeout">>

Titles == {T_Main, T_Save, T_SaveAs, T_Export, T_Both, T_Browser}

\* filenames, as sequences of text fragments: one given by the caller, and
\* the one export_track makes up when it is given none
F_Bass == <<"bass_Amin_128bpm">>
F_Auto == <<"export_", "120", "bpm_", "0">>
Filenames == {F_Bass}

NoCheck == <<"<no check>">>
NoTitle == <<"<no title>">>

\* x in s, for Python strings: s has a contiguous run equal to x
Contains(x, s) ==
    \E i \in 0..(Len(s) - Len(x)) : SubSeq(s, i + 1, i + Len(x)) = x

\* Faulty variant of IsSafe: the title must equal a listed name
IsSafe_ExactMatch(t) == t \in SAFE_DIALOG_WINDOWS

\* any(safe in window_name for safe in SAFE_DIALOG_WINDOWS)
IsSafe(t) == \E safe \in SAFE_DIALOG_WINDOWS : Contains(safe, t)

\* run_applescript of a title-reading script: (True, stripped stdout) on exit
\* code 0, (False, stdout) on a non-zero exit, (False, "Timeout") on timeout
RunTitleScript(w) ==
    {[ok |-> TRUE, text |-> w]}
        \cup {[ok |-> FALSE, text |-> d] : d \in {T_Main, T_Timeout}}

\* verify_in_dialog: the window_name it returns; success is ignored
verify_in_dialog(w) == {r.text : r \in RunTitleScript(w)}

---------------------------------------------------------------------------
(* Initial state *)

UiInit ==
    [shortcut |-> FALSE,      \* Cmd+Shift+R sent
     shortcuts |-> 0,         \* how many times Cmd+Shift+R was sent
     confirm |-> FALSE,       \* Enter sent to the Export dialog
     button10 |-> FALSE,      \* button 10 (Export) of the dialog clicked
     start |-> FALSE,         \* Enter sent after filename entry
     enters |-> 0,            \* press_enter() calls made
     proceed |-> FALSE,       \* button 2 (Proceed) clicked
     clicked |-> FALSE,       \* Render Length field triple-clicked
     tab |-> FALSE,           \* Tab sent
     selectGate |-> NoTitle,  \* lastCheck when Cmd+A was sent
     selWindow |-> NoTitle,   \* front window when Cmd+A was sent, until the name is typed
     typeGate |-> NoTitle,    \* lastCheck when the filename was typed
     typeMoved |-> FALSE,     \* the front window differed from selWindow then
     typedValue |-> 0,        \* the render length typed
     escapes |-> 0,           \* Escape keys sent
     batchKeys |-> << >>]     \* AbletonExportAutomation.export_track: the
                              \* keys it sent, each with lastCheck at the time

ObsInit == [saveSeen |-> FALSE, afterSave |-> FALSE, allDialog |-> TRUE,
            finalClosed |-> FALSE,
            endRead |-> "none",  \* the title read that ended the completion
                                 \* wait with success: "ok" when its script
                                 \* succeeded, "failed" when it did not
            readOk |-> TRUE,  \* verify_in_dialog called on its own: the
                              \* success flag run_applescript gave it
            readBack |-> -1,  \* render length read back, in quarters of a
                              \* bar; -1 when no number was read
            scenario |-> << >>]  \* two calls in a row: the outcomes and
                                 \* titles the environment gives both calls

OutInit == [result |-> "none", step |-> "none", kind |-> "none", title |-> NoTitle,
            escSince |-> 0, frontSeen |-> FALSE, exhausted |-> FALSE,
            activateFailed |-> FALSE,  \* activate_ableton() returned False
            message |-> NoTitle,  \* text of the exception raised to the caller
            filename |-> NoTitle, \* the filename the export was called with
            final |-> NoTitle,    \* the filename a successful export reports
            call |-> 0,           \* two calls in a row: which call is running
            first |-> << >>,      \* two calls in a row: what the first call
                                  \* returned and the UI actions it issued
            group |-> << >>]      \* export_group: its loop (see GroupInit)

\* OSC addresses, and the argument tuples a response can carry
Addresses == {"/live/song/get/tempo", "/live/song/get/num_tracks"}
Payloads == {"args1", "args2"}

\* no request: the response dictionary has no entry, or the message was not
\* produced for any request of this client (requests are numbered from 1)
NoReq == -1
Unsolicited == 0

\* AbletonOSCClient after __init__: both dictionaries are empty.  An event
\* of _response_events is "clear" or "set"; "none" is no entry.
OscInit ==
    [responses |-> [a \in Addresses |-> "absent"],  \* self._responses
     events |-> [a \in Addresses |-> "none"],       \* self._response_events
     inflight |-> {},        \* datagrams on their way to the receive port
     delivered |-> 0,        \* datagrams that have arrived so far
     handling |-> << >>,     \* the message _handle_response is working on
     address |-> "none",     \* query: its argument address
     queries |-> 0,          \* calls of query made
     result |-> "none",      \* query: what it returned ("None" for None)
     arrived |-> FALSE,      \* a message on the queried address was handled
                             \* since the query registered its event
     stray |-> FALSE,        \* a message on another address was handled
                             \* since then
     requests |-> << >>,     \* the addresses of the requests sent, one per
                             \* query, in order
     from |-> [a \in Addresses |-> NoReq],  \* for each entry of _responses,
                             \* the request its message was produced for
     answer |-> NoReq,       \* query: the request that the response it
                             \* returned was produced for
     how |-> "none"]         \* query: "event" when it returned because its
                             \* event was set, "timeout" when the wait ran
                             \* out

\* cli.py: the exit codes
EXIT_SUCCESS == 0
EXIT_ERROR == 1
EXIT_CONNECTION_FAILED == 2

\* exit code of a process that has not exited
Running == -1

\* the (success, message) message of a core operation that has none yet
NoMessage == [text |-> "", index |-> 0, name |-> ""]

\* the process before main() has parsed its arguments
CliInit ==
    [command |-> "none",        \* args.command
     system |-> "Darwin",       \* platform.system()
     index |-> 0,               \* args.index
     count |-> 0,               \* select_track_by_index: the track count
     clients |-> 0,             \* AbletonOSCClient objects constructed
     connected |-> "unchecked", \* status.connected: "yes" / "no"
     ops |-> {},                \* core operations called after the check
     sent |-> << >>,            \* OSC messages sent by client.send
     result |-> "none",         \* how the operation ended
     message |-> NoMessage,     \* the message the operation returned
     exit |-> Running]          \* the exit code of the process

\* results of a function that has not been applied
NotApplied == <<"<not applied>">>
NoReturn == [raised |-> FALSE, ok |-> FALSE, output |-> NotApplied]

\* subprocess.run has not been called
NoProc == [kind |-> "none", returncode |-> 0, stdout |-> << >>, detail |-> ""]

\* get_arrangement_audio_range has not been called
NoRange == [kind |-> "none", start_beats |-> 0, end_beats |-> 0,
            start_bar |-> 0, length_bars |-> 0]

AppInit ==
    [name |-> << >>,          \* sanitize_filename: its argument
     core |-> NotApplied,     \* core.sanitize_filename(name)
     server |-> NotApplied,   \* server.sanitize_filename(name)
     again |-> NotApplied,    \* core.sanitize_filename of app.core
     proc |-> NoProc,         \* run_applescript: how subprocess.run ends
     tracks |-> << >>,        \* get_arrangement_audio_range: the Live set
     range |-> NoRange,       \* get_arrangement_audio_range: its result
     ret |-> NoReturn]        \* run_applescript: what it returns

Init ==
    /\ pc = "idle"
    /\ window \in Titles
    /\ attempt = 0
    /\ waited = 0
    /\ escLeft = 0
    /\ escThen = "none"
    /\ branch = "none"
    /\ tfResult = "none"
    /\ lastCheck = NoCheck
    /\ lengthBars = 0
    /\ ui = UiInit
    /\ obs = ObsInit
    /\ out = OutInit
    /\ osc = OscInit
    /\ cli = CliInit
    /\ app = AppInit

---------------------------------------------------------------------------
(* Helpers shared by the steps *)

\* raise <exception>(message): control goes to the except clauses of
\* safe_export_with_filename
Raise(step, kind, title) ==
    /\ pc' = "handler"
    /\ out' = [out EXCEPT !.step = step, !.kind = kind, !.title = title,
                          !.escSince = 0]

\* Faulty variant of ReturnSuccess: the filename is reported as it was given
ReturnSuccess_BareName ==
    /\ pc' = "done"
    /\ out' = [out EXCEPT !.result = "success", !.kind = "export_complete",
                          !.final = out.filename]

\* return True, f"Export complete: {filename}.wav"; export_track turns it
\* into ExportResult(success=True, filename=f"{filename}.wav", ...)
ReturnSuccess ==
    /\ pc' = "done"
    /\ out' = [out EXCEPT !.result = "success", !.kind = "export_complete",
                          !.final = out.filename \o <<".wav">>]

\* the environment: the front window changes between two automation steps
EnvChange ==
    /\ pc \notin {"idle", "done"}
    /\ \E w \in Titles \ {window} : window' = w
    /\ UNCHANGED <<app, cli, osc, pc, attempt, waited, escLeft, escThen,
                   branch, tfResult, lastCheck, lengthBars, ui, obs, out>>

---------------------------------------------------------------------------
(* safe_export_with_filename *)

CallSafeExport ==
    /\ pc = "idle"
    /\ pc' = "act_activate"
    /\ \E filename \in Filenames : out' = [out EXCEPT !.filename = filename]
    /\ UNCHANGED <<app, cli, osc, window, attempt, waited, escLeft, escThen, branch, tfResult,
                   lastCheck, lengthBars, ui, obs>>

\* _activate_and_verify: activate_ableton() of one loop iteration
Activate ==
    /\ pc = "act_activate"
    /\ lastCheck' = NoCheck
    /\ \E ok \in BOOLEAN :
          IF ok
          THEN pc' = "act_check" /\ UNCHANGED out
          ELSE /\ pc' = "handler"
               /\ out' = [out EXCEPT !.step = "activate",
                                     !.kind = "activation_failed",
                                     !.title = NoTitle, !.escSince = 0,
                                     !.activateFailed = TRUE]
    /\ UNCHANGED <<app, cli, osc, window, attempt, waited, escLeft, escThen,
                   branch, tfResult, lengthBars, ui, obs>>

\* Faulty variant of CheckFrontmost: the loop goes on until Live is frontmost
CheckFrontmost_UntilFrontmost ==
    /\ pc = "act_check"
    /\ lastCheck' = NoCheck
    /\ \E app_name \in {"Live", "Finder", ""} :
          IF app_name = "Live"
          THEN /\ pc' = "open"
               /\ attempt' = 0
               /\ out' = [out EXCEPT !.frontSeen = TRUE]
          ELSE /\ pc' = "act_activate"
               /\ attempt' = IF attempt + 1 < MaxRetries THEN attempt + 1 ELSE attempt
               /\ UNCHANGED out
    /\ UNCHANGED <<app, cli, osc, window, waited, escLeft, escThen,
                   branch, tfResult, lengthBars, ui, obs>>

\* Faulty variant of CheckFrontmost: the loop makes one attempt more than
\* max_retries
CheckFrontmost_OneMoreAttempt ==
    /\ pc = "act_check"
    /\ lastCheck' = NoCheck
    /\ \E app_name \in {"Live", "Finder", ""} :
          IF app_name = "Live"
          THEN /\ pc' = "open"
               /\ attempt' = 0
               /\ out' = [out EXCEPT !.frontSeen = TRUE]
          ELSE IF attempt < MaxRetries
          THEN /\ pc' = "act_activate"
               /\ attempt' = attempt + 1
               /\ UNCHANGED out
          ELSE /\ pc' = "open"
               /\ attempt' = 0
               /\ out' = [out EXCEPT !.exhausted = TRUE]
    /\ UNCHANGED <<app, cli, osc, window, waited, escLeft, escThen,
                   branch, tfResult, lengthBars, ui, obs>>

\* _activate_and_verify: _check_frontmost_app() and the rest of the iteration;
\* when the loop runs out the function returns normally (a warning is printed)
CheckFrontmost ==
    /\ pc = "act_check"
    /\ lastCheck' = NoCheck
    /\ \E app_name \in {"Live", "Finder", ""} :
          IF app_name = "Live"
          THEN /\ pc' = "open"
               /\ attempt' = 0
               /\ out' = [out EXCEPT !.frontSeen = TRUE]
          ELSE IF attempt + 1 < MaxRetries
          THEN /\ pc' = "act_activate"
               /\ attempt' = attempt + 1
               /\ UNCHANGED out
          ELSE /\ pc' = "open"
               /\ attempt' = 0
               /\ out' = [out EXCEPT !.exhausted = TRUE]
    /\ UNCHANGED <<app, cli, osc, window, waited, escLeft, escThen,
                   branch, tfResult, lengthBars, ui, obs>>

\* _open_and_verify_export_dialog: open_export_dialog() sends Cmd+Shift+R
OpenExportDialog ==
    /\ pc = "open"
    /\ lastCheck' = NoCheck
    /\ ui' = [ui EXCEPT !.shortcut = TRUE, !.shortcuts = @ + 1]
    /\ \E ok \in BOOLEAN :
          IF ok
          THEN pc' = "open_verify" /\ UNCHANGED out
          ELSE Raise("open_export_dialog", "open_failed", NoTitle)
    /\ UNCHANGED <<app, cli, osc, window, attempt, waited, escLeft, escThen,
                   branch, tfResult, lengthBars, obs>>

\* Faulty variant of OpenVerify: on a mismatch the export shortcut is tried
\* once more before the attempt is given up
OpenVerify_Retry ==
    /\ pc = "open_verify"
    /\ \E window_name \in verify_in_dialog(window) :
          /\ lastCheck' = window_name
          /\ IF ~Contains(EXPORT_DIALOG_PREFIX, window_name)
             THEN /\ pc' = IF ui.shortcuts < 2 THEN "open" ELSE "escaping"
                  /\ escLeft' = AbortEscapes
                  /\ escThen' = "raise"
                  /\ out' = [out EXCEPT !.step = "open_export_dialog",
                                        !.kind = "expected_export",
                                        !.title = window_name, !.escSince = 0]
             ELSE /\ pc' = "confirm"
                  /\ UNCHANGED <<escLeft, escThen, out>>
    /\ UNCHANGED <<app, cli, osc, window, attempt, waited, branch, tfResult,
                   lengthBars, ui, obs>>

\* _open_and_verify_export_dialog: verify_in_dialog(); on a mismatch
\* _abort_and_escape() runs before the raise
OpenVerify ==
    /\ pc = "open_verify"
    /\ \E window_name \in verify_in_dialog(window) :
          /\ lastCheck' = window_name
          /\ IF ~Contains(EXPORT_DIALOG_PREFIX, window_name)
             THEN /\ pc' = "escaping"
                  /\ escLeft' = AbortEscapes
                  /\ escThen' = "raise"
                  /\ out' = [out EXCEPT !.step = "open_export_dialog",
                                        !.kind = "expected_export",
                                        !.title = window_name, !.escSince = 0]
             ELSE /\ pc' = "confirm"
                  /\ UNCHANGED <<escLeft, escThen, out>>
    /\ UNCHANGED <<app, cli, osc, window, attempt, waited, branch, tfResult,
                   lengthBars, ui, obs>>

\* _abort_and_escape: one iteration, close_dialog_with_escape(); after the
\* last one control returns to where the call was made
\* Faulty variant of AbortAndEscape: the dismissal sends Enter along with
\* each Escape
AbortAndEscape_PressesEnter ==
    /\ pc = "escaping"
    /\ escLeft > 0
    /\ lastCheck' = NoCheck
    /\ ui' = [ui EXCEPT !.escapes = @ + 1, !.enters = @ + 1]
    /\ escLeft' = escLeft - 1
    /\ IF escLeft > 1
       THEN /\ pc' = "escaping"
            /\ out' = [out EXCEPT !.escSince = @ + 1]
       ELSE IF escThen = "raise"
       THEN /\ pc' = "handler"
            /\ out' = [out EXCEPT !.escSince = @ + 1]
       ELSE /\ pc' = "done"
            /\ out' = [out EXCEPT !.escSince = @ + 1, !.result = "failure"]
    /\ UNCHANGED <<app, cli, osc, window, attempt, waited, escThen, branch,
                   tfResult, lengthBars, obs>>

AbortAndEscape ==
    /\ pc = "escaping"
    /\ escLeft > 0
    /\ lastCheck' = NoCheck
    /\ ui' = [ui EXCEPT !.escapes = @ + 1]
    /\ escLeft' = escLeft - 1
    /\ IF escLeft > 1
       THEN /\ pc' = "escaping"
            /\ out' = [out EXCEPT !.escSince = @ + 1]
       ELSE IF escThen = "raise"
       THEN /\ pc' = "handler"
            /\ out' = [out EXCEPT !.escSince = @ + 1]
       ELSE /\ pc' = "done"
            /\ out' = [out EXCEPT !.escSince = @ + 1, !.result = "failure"]
    /\ UNCHANGED <<app, cli, osc, window, attempt, waited, escThen, branch,
                   tfResult, lengthBars, obs>>

\* Faulty variant of ExceptHandler: the except clause returns the failure
\* without calling _abort_and_escape()
ExceptHandler_NoAbort ==
    /\ pc = "handler"
    /\ pc' = "done"
    /\ out' = [out EXCEPT !.result = "failure"]
    /\ UNCHANGED <<app, cli, osc, window, attempt, waited, escLeft, escThen, branch, tfResult,
                   lastCheck, lengthBars, ui, obs>>

\* except (AbletonActivationError, DialogVerificationError, ExportError):
\* _abort_and_escape(), then return False, str(e)
ExceptHandler ==
    /\ pc = "handler"
    /\ pc' = "escaping"
    /\ escLeft' = AbortEscapes
    /\ escThen' = "return"
    /\ UNCHANGED <<app, cli, osc, window, attempt, waited, branch, tfResult,
                   lastCheck, lengthBars, ui, obs, out>>

\* press_enter() of step 5: the Export button of the verified Export dialog
Confirm ==
    /\ pc = "confirm"
    /\ pc' = "confirm_verify"
    /\ lastCheck' = NoCheck
    /\ ui' = [ui EXCEPT !.confirm = TRUE, !.enters = @ + 1]
    /\ UNCHANGED <<app, cli, osc, window, attempt, waited, escLeft, escThen,
                   branch, tfResult, lengthBars, obs, out>>

\* Faulty variant of ConfirmVerify: a title that is neither Save nor Export
\* is treated as an unexpected dialog and raises
ConfirmVerify_RaiseOnNeither ==
    /\ pc = "confirm_verify"
    /\ \E window_name \in verify_in_dialog(window), output_folder \in BOOLEAN :
          /\ lastCheck' = window_name
          /\ IF Contains(SAVE_DIALOG_NAME, window_name)
             THEN /\ branch' = "save"
                  /\ pc' = IF output_folder THEN "goto_folder" ELSE "tf_check"
                  /\ UNCHANGED out
             ELSE IF ~Contains(EXPORT_DIALOG_PREFIX, window_name)
             THEN /\ branch' = "direct"
                  /\ Raise("confirm_export", "unexpected_dialog", window_name)
             ELSE /\ branch' = "subconfirm"
                  /\ pc' = "sub_check"
                  /\ UNCHANGED out
    /\ waited' = 0
    /\ UNCHANGED <<app, cli, osc, window, attempt, escLeft, escThen, tfResult, lengthBars, ui, obs>>

\* Faulty variant of ConfirmVerify: "Export" is tested before "Save"
ConfirmVerify_ExportFirst ==
    /\ pc = "confirm_verify"
    /\ \E window_name \in verify_in_dialog(window), output_folder \in BOOLEAN :
          /\ lastCheck' = window_name
          /\ IF Contains(EXPORT_DIALOG_PREFIX, window_name)
             THEN /\ branch' = "subconfirm"
                  /\ pc' = "sub_check"
             ELSE IF Contains(SAVE_DIALOG_NAME, window_name)
             THEN /\ branch' = "save"
                  /\ pc' = IF output_folder THEN "goto_folder" ELSE "tf_check"
             ELSE /\ branch' = "direct"
                  /\ pc' = "w12_poll"
    /\ waited' = 0
    /\ UNCHANGED <<app, cli, osc, window, attempt, escLeft, escThen,
                   tfResult, lengthBars, ui, obs, out>>

\* verify_in_dialog() after the confirm and the three-way branch on it
\* (output_folder: the argument is given; it is read here only)
ConfirmVerify ==
    /\ pc = "confirm_verify"
    /\ \E window_name \in verify_in_dialog(window), output_folder \in BOOLEAN :
          /\ lastCheck' = window_name
          /\ IF Contains(SAVE_DIALOG_NAME, window_name)
             THEN /\ branch' = "save"
                  /\ pc' = IF output_folder THEN "goto_folder" ELSE "tf_check"
             ELSE IF ~Contains(EXPORT_DIALOG_PREFIX, window_name)
             THEN /\ branch' = "direct"
                  /\ pc' = "w12_poll"
             ELSE /\ branch' = "subconfirm"
                  /\ pc' = "sub_check"
    /\ waited' = 0
    /\ UNCHANGED <<app, cli, osc, window, attempt, escLeft, escThen,
                   tfResult, lengthBars, ui, obs, out>>

\* set_file_save_location: Cmd+Shift+G, the path, Return
SetFileSaveLocation ==
    /\ pc = "goto_folder"
    /\ pc' = "tf_check"
    /\ lastCheck' = NoCheck
    /\ UNCHANGED <<app, cli, osc, window, attempt, waited, escLeft, escThen,
                   branch, tfResult, lengthBars, ui, obs, out>>

\* _type_filename_in_save_dialog, start of the script: it may fail to run;
\* else it reads the front window and errors unless it is exactly "Save"
TypeFilenameCheck ==
    /\ pc = "tf_check"
    /\ \E runs \in BOOLEAN :
          IF runs /\ window = T_Save
          THEN /\ pc' = "tf_select"
               /\ lastCheck' = window
               /\ UNCHANGED tfResult
          ELSE /\ pc' = "start_enter"
               /\ lastCheck' = IF runs THEN window ELSE NoCheck
               /\ tfResult' = "fail"
    /\ UNCHANGED <<app, cli, osc, window, attempt, waited, escLeft, escThen,
                   branch, lengthBars, ui, obs, out>>

\* _type_filename_in_save_dialog: keystroke "a" using {command down}
TypeFilenameSelectAll ==
    /\ pc = "tf_select"
    /\ pc' = "tf_type"
    /\ ui' = [ui EXCEPT !.selectGate = lastCheck, !.selWindow = window]
    /\ lastCheck' = NoCheck
    /\ UNCHANGED <<app, cli, osc, window, attempt, waited, escLeft, escThen,
                   branch, tfResult, lengthBars, obs, out>>

\* _type_filename_in_save_dialog: delay 0.1, keystroke "{filename}"
TypeFilenameType ==
    /\ pc = "tf_type"
    /\ pc' = "start_enter"
    /\ ui' = [ui EXCEPT !.typeGate = lastCheck, !.typeMoved = (window # ui.selWindow),
                        !.selWindow = NoTitle]
    /\ lastCheck' = NoCheck
    /\ tfResult' = "ok"
    /\ UNCHANGED <<app, cli, osc, window, attempt, waited, escLeft, escThen,
                   branch, lengthBars, obs, out>>

\* press_enter() after filename entry: it starts the render
StartEnter ==
    /\ pc = "start_enter"
    /\ pc' = "wait_poll"
    /\ lastCheck' = NoCheck
    /\ ui' = [ui EXCEPT !.start = TRUE, !.enters = @ + 1]
    /\ UNCHANGED <<app, cli, osc, window, attempt, waited, escLeft, escThen,
                   branch, tfResult, lengthBars, obs, out>>

---------------------------------------------------------------------------
(* The completion waits *)

\* what one more poll reading title t adds to the record of the polls
Polled(t) ==
    [obs EXCEPT !.afterSave = @ \/ obs.saveSeen,
                !.saveSeen = @ \/ Contains(SAVE_DIALOG_NAME, t),
                !.allDialog = @ /\ (Contains(SAVE_DIALOG_NAME, t)
                                       \/ Contains(EXPORT_DIALOG_PREFIX, t))]

\* the record of the polls after the read r has ended the wait with success
EndedBy(o, r) == [o EXCEPT !.endRead = IF r.ok THEN "ok" ELSE "failed"]

\* _wait_for_export_completion: one iteration of the while loop
WaitPoll ==
    /\ pc = "wait_poll"
    /\ waited < MaxWait
    /\ waited' = waited + 1
    /\ \E r \in RunTitleScript(window) :
          LET window_name == r.text
          IN  /\ lastCheck' = window_name
              /\ IF Contains(SAVE_DIALOG_NAME, window_name)
                 THEN /\ Raise("wait_completion", "save_still_open", NoTitle)
                      /\ obs' = Polled(window_name)
                 ELSE IF ~Contains(EXPORT_DIALOG_PREFIX, window_name)
                 THEN /\ ReturnSuccess
                      /\ obs' = EndedBy(Polled(window_name), r)
                 ELSE /\ pc' = "wait_poll" /\ UNCHANGED out
                      /\ obs' = Polled(window_name)
    /\ UNCHANGED <<app, cli, osc, window, attempt, escLeft, escThen, branch,
                   tfResult, lengthBars, ui>>

\* _wait_for_export_completion: the check after the loop has run out
WaitFinal ==
    /\ pc = "wait_poll"
    /\ waited >= MaxWait
    /\ \E r \in RunTitleScript(window) :
          LET window_name == r.text
          IN  /\ lastCheck' = window_name
              /\ IF Contains(SAVE_DIALOG_NAME, window_name)
                    \/ Contains(EXPORT_DIALOG_PREFIX, window_name)
                 THEN /\ Raise("wait_completion", "timeout_titled", window_name)
                      /\ UNCHANGED obs
                 ELSE /\ ReturnSuccess
                      /\ obs' = EndedBy([obs EXCEPT !.finalClosed = TRUE], r)
    /\ UNCHANGED <<app, cli, osc, window, attempt, waited, escLeft, escThen,
                   branch, tfResult, lengthBars, ui>>

\* _handle_export_confirmation_and_wait: the script that looks for the
\* "stop audio" confirmation; the test made on its output is
\* "confirmation" in result
HandleExportConfirmation ==
    /\ pc = "sub_check"
    /\ lastCheck' = NoCheck
    /\ \E success \in BOOLEAN, result \in {<<"confirmation">>, <<"no_", "confirmation">>} :
          pc' = IF success /\ Contains(<<"confirmation">>, result)
                THEN "sub_click" ELSE "w12_poll"
    /\ UNCHANGED <<app, cli, osc, window, attempt, waited, escLeft, escThen,
                   branch, tfResult, lengthBars, ui, obs, out>>

\* _handle_export_confirmation_and_wait: click button 2 (Proceed)
ClickProceed ==
    /\ pc = "sub_click"
    /\ pc' = "w12_poll"
    /\ lastCheck' = NoCheck
    /\ ui' = [ui EXCEPT !.proceed = TRUE]
    /\ UNCHANGED <<app, cli, osc, window, attempt, waited, escLeft, escThen,
                   branch, tfResult, lengthBars, obs, out>>

\* Faulty variant of WaitPollLive12: only the empty title of the main window
\* counts as the dialog having closed
WaitPollLive12_OnlyEmpty ==
    /\ pc = "w12_poll"
    /\ waited < MaxWait
    /\ waited' = waited + 1
    /\ \E window_name \in verify_in_dialog(window) :
          /\ lastCheck' = window_name
          /\ obs' = Polled(window_name)
          /\ IF window_name = T_Main
             THEN ReturnSuccess
             ELSE pc' = "w12_poll" /\ UNCHANGED out
    /\ UNCHANGED <<app, cli, osc, window, attempt, escLeft, escThen, branch,
                   tfResult, lengthBars, ui>>

\* _wait_for_export_completion_live12: one iteration of the while loop
WaitPollLive12 ==
    /\ pc = "w12_poll"
    /\ waited < MaxWait
    /\ waited' = waited + 1
    /\ \E r \in RunTitleScript(window) :
          LET window_name == r.text
          IN  /\ lastCheck' = window_name
              /\ IF ~Contains(EXPORT_DIALOG_PREFIX, window_name)
                    /\ ~Contains(SAVE_DIALOG_NAME, window_name)
                 THEN /\ ReturnSuccess
                      /\ obs' = EndedBy(Polled(window_name), r)
                 ELSE /\ pc' = "w12_poll" /\ UNCHANGED out
                      /\ obs' = Polled(window_name)
    /\ UNCHANGED <<app, cli, osc, window, attempt, escLeft, escThen, branch,
                   tfResult, lengthBars, ui>>

\* Faulty variant of TimeoutLive12: running out of polls is taken as completion
TimeoutLive12_Success ==
    /\ pc = "w12_poll"
    /\ waited >= MaxWait
    /\ ReturnSuccess
    /\ UNCHANGED <<app, cli, osc, window, attempt, waited, escLeft, escThen,
                   branch, tfResult, lastCheck, lengthBars, ui, obs>>

\* _wait_for_export_completion_live12: raise after the loop has run out
TimeoutLive12 ==
    /\ pc = "w12_poll"
    /\ waited >= MaxWait
    /\ Raise("wait_completion", "timeout", NoTitle)
    /\ UNCHANGED <<app, cli, osc, window, attempt, waited, escLeft, escThen,
                   branch, tfResult, lastCheck, lengthBars, ui, obs>>

---------------------------------------------------------------------------
(* core.export_track *)

\* osc_client.Clip is a dataclass: clips[0]['start_time'] raises TypeError
ClipIsSubscriptable == FALSE

\* get_arrangement_clips: [] when a query failed or returned nothing, else
\* one Clip for each index 1..len(names)-1 of the response
get_arrangement_clips(names, queriesOk) ==
    IF ~queriesOk \/ Len(names) = 0
    THEN << >>
    ELSE [i \in 1..(Len(names) - 1) |-> [kind |-> "Clip", name |-> names[i + 1]]]

\* export_track up to its call of safe_export_with_filename: the index
\* check, the loop range taken from the clips, the selection of the track
\* (given: track_index is not None; custom_filename = NoTitle: it is None,
\* and a filename is generated)
ExportTrackSetup ==
    /\ pc = "idle"
    /\ \E given \in BOOLEAN, track_index \in -1..MaxTracks, count \in 0..MaxTracks,
          n \in 0..MaxClips, queriesOk \in BOOLEAN,
          custom_filename \in Filenames \cup {NoTitle} :
          LET clips == get_arrangement_clips([i \in 1..(n + 1) |-> "x"], queriesOk)
              filename == IF custom_filename # NoTitle THEN custom_filename
                          ELSE F_Auto
          IN  IF given /\ (track_index < 0 \/ track_index >= count)
              THEN /\ pc' = "done"
                   /\ out' = [out EXCEPT !.result = "failure",
                                         !.kind = "invalid_index"]
              ELSE IF given /\ Len(clips) > 0 /\ ~ClipIsSubscriptable
              THEN /\ pc' = "done"
                   /\ out' = [out EXCEPT !.result = "raised", !.kind = "TypeError"]
              ELSE /\ pc' = "act_activate"
                   /\ out' = [out EXCEPT !.filename = filename]
    /\ UNCHANGED <<app, cli, osc, window, attempt, waited, escLeft, escThen, branch, tfResult,
                   lastCheck, lengthBars, ui, obs>>

---------------------------------------------------------------------------
(* set_export_render_range and select_text_in_field *)

\* return (success, message) of set_export_render_range / select_text_in_field
Return(ok, kind, title) ==
    /\ pc' = "done"
    /\ out' = [out EXCEPT !.result = IF ok THEN "success" ELSE "failure",
                          !.kind = kind, !.title = title]

CallSetRange ==
    /\ pc = "idle"
    /\ pc' = "sr_verify"
    /\ lengthBars' \in 1..MaxBars
    /\ UNCHANGED <<app, cli, osc, window, attempt, waited, escLeft, escThen,
                   branch, tfResult, lastCheck, ui, obs, out>>

\* set_export_render_range: verify_in_dialog() and the Export test
SetRangeVerify ==
    /\ pc = "sr_verify"
    /\ \E window_name \in verify_in_dialog(window) :
          /\ lastCheck' = window_name
          /\ IF ~Contains(EXPORT_DIALOG_PREFIX, window_name)
             THEN Return(FALSE, "not_in_export", window_name)
             ELSE pc' = "sr_import" /\ UNCHANGED out
    /\ UNCHANGED <<app, cli, osc, window, attempt, waited, escLeft, escThen,
                   branch, tfResult, lengthBars, ui, obs>>

\* _set_render_range_via_clicks: the import of Quartz
SetRangeImport ==
    /\ pc = "sr_import"
    /\ \E quartz \in BOOLEAN :
          IF quartz
          THEN pc' = "sr_position" /\ UNCHANGED out
          ELSE Return(FALSE, "quartz_unavailable", NoTitle)
    /\ UNCHANGED <<app, cli, osc, window, attempt, waited, escLeft, escThen,
                   branch, tfResult, lastCheck, lengthBars, ui, obs>>

\* _set_render_range_via_clicks: the script reading the position of slider 4
\* (its result only picks the coordinates of the click)
SetRangePosition ==
    /\ pc = "sr_position"
    /\ pc' = "sr_click"
    /\ lastCheck' = NoCheck
    /\ UNCHANGED <<app, cli, osc, window, attempt, waited, escLeft, escThen,
                   branch, tfResult, lengthBars, ui, obs, out>>

\* _set_render_range_via_clicks: triple_click on the Render Length field
SetRangeTripleClick ==
    /\ pc = "sr_click"
    /\ pc' = "sr_selectall"
    /\ lastCheck' = NoCheck
    /\ ui' = [ui EXCEPT !.clicked = TRUE]
    /\ UNCHANGED <<app, cli, osc, window, attempt, waited, escLeft, escThen,
                   branch, tfResult, lengthBars, obs, out>>

\* _set_render_range_via_clicks: keystroke "a" using command down
SetRangeSelectAll ==
    /\ pc = "sr_selectall"
    /\ pc' = "sr_type"
    /\ ui' = [ui EXCEPT !.selectGate = lastCheck]
    /\ lastCheck' = NoCheck
    /\ UNCHANGED <<app, cli, osc, window, attempt, waited, escLeft, escThen,
                   branch, tfResult, lengthBars, obs, out>>

\* _set_render_range_via_clicks: type_text(str(length_bars))
SetRangeType ==
    /\ pc = "sr_type"
    /\ pc' = "sr_tab"
    /\ lastCheck' = NoCheck
    /\ ui' = [ui EXCEPT !.typedValue = lengthBars]
    /\ UNCHANGED <<app, cli, osc, window, attempt, waited, escLeft, escThen,
                   branch, tfResult, lengthBars, obs, out>>

\* Faulty variant of SetRangeTab: the value is confirmed with press_enter()
SetRangeTab_Enter ==
    /\ pc = "sr_tab"
    /\ pc' = "sr_readback"
    /\ lastCheck' = NoCheck
    /\ ui' = [ui EXCEPT !.enters = @ + 1]
    /\ UNCHANGED <<app, cli, osc, window, attempt, waited, escLeft, escThen,
                   branch, tfResult, lengthBars, obs, out>>

\* _set_render_range_via_clicks: press_tab()
SetRangeTab ==
    /\ pc = "sr_tab"
    /\ pc' = "sr_readback"
    /\ lastCheck' = NoCheck
    /\ ui' = [ui EXCEPT !.tab = TRUE]
    /\ UNCHANGED <<app, cli, osc, window, attempt, waited, escLeft, escThen,
                   branch, tfResult, lengthBars, obs, out>>

\* abs(verified_length - length_bars) < 0.5, the read-back value in quarters
WithinTolerance(quarters, length_bars) ==
    LET d == quarters - 4 * length_bars
    IN  (IF d < 0 THEN -d ELSE d) < 2

\* _set_render_range_via_clicks: read slider 4 back and compare
SetRangeReadBack ==
    /\ pc = "sr_readback"
    /\ lastCheck' = NoCheck
    /\ \E success \in BOOLEAN, parses \in BOOLEAN, quarters \in 0..(4 * MaxBars + 4) :
          IF success /\ parses
          THEN /\ obs' = [obs EXCEPT !.readBack = quarters]
               /\ IF WithinTolerance(quarters, lengthBars)
                  THEN Return(TRUE, "set_render_length", NoTitle)
                  ELSE Return(FALSE, "value_not_set", NoTitle)
          ELSE /\ UNCHANGED obs
               /\ Return(TRUE, "unverified", NoTitle)
    /\ UNCHANGED <<app, cli, osc, window, attempt, waited, escLeft, escThen,
                   branch, tfResult, lengthBars, ui>>

\* "select_all_and_delete() is disabled - it can delete tracks. Use
\* select_text_in_field() instead."
DisabledMessage ==
    <<"select_all_and_delete() is ", "disabled", " - it ", "can delete tracks",
      ". Use select_text_in_field() instead.">>

CallSelectAllAndDelete ==
    /\ pc = "idle"
    /\ pc' = "sad_body"
    /\ out' = [out EXCEPT !.step = "select_all_and_delete"]
    /\ UNCHANGED <<app, cli, osc, window, attempt, waited, escLeft, escThen,
                   branch, tfResult, lastCheck, lengthBars, ui, obs>>

\* Faulty variant of SelectAllAndDelete: the body sends Cmd+A and Delete
SelectAllAndDelete_Enabled ==
    /\ pc = "sad_body"
    /\ pc' = "done"
    /\ ui' = [ui EXCEPT !.selectGate = lastCheck]
    /\ out' = [out EXCEPT !.result = "success", !.kind = "deleted"]
    /\ UNCHANGED <<app, cli, osc, window, attempt, waited, escLeft, escThen,
                   branch, tfResult, lastCheck, lengthBars, obs>>

\* select_all_and_delete: the body is a single raise RuntimeError(...)
SelectAllAndDelete ==
    /\ pc = "sad_body"
    /\ pc' = "done"
    /\ out' = [out EXCEPT !.result = "raised", !.kind = "RuntimeError",
                          !.message = DisabledMessage]
    /\ UNCHANGED <<app, cli, osc, window, attempt, waited, escLeft, escThen,
                   branch, tfResult, lastCheck, lengthBars, ui, obs>>

CallVerifyInDialog ==
    /\ pc = "idle"
    /\ pc' = "vd_read"
    /\ UNCHANGED <<app, cli, osc, window, attempt, waited, escLeft, escThen,
                   branch, tfResult, lastCheck, lengthBars, ui, obs, out>>

\* verify_in_dialog called on its own: is_safe is computed from the text
\* run_applescript returned, whatever its success flag; the call returns
\* (is_safe, window_name)
VerifyInDialogReturn ==
    /\ pc = "vd_read"
    /\ \E r \in RunTitleScript(window) :
          LET window_name == r.text
              is_safe == IsSafe(window_name)
          IN  /\ lastCheck' = window_name
              /\ obs' = [obs EXCEPT !.readOk = r.ok]
              /\ pc' = "done"
              /\ out' = [out EXCEPT !.result = "returned",
                                    !.kind = IF is_safe THEN "is_safe" ELSE "not_safe",
                                    !.title = window_name]
    /\ UNCHANGED <<app, cli, osc, window, attempt, waited, escLeft, escThen,
                   branch, tfResult, lengthBars, ui>>

CallSelectText ==
    /\ pc = "idle"
    /\ pc' = "st_check"
    /\ UNCHANGED <<app, cli, osc, window, attempt, waited, escLeft, escThen,
                   branch, tfResult, lastCheck, lengthBars, ui, obs, out>>

\* select_text_in_field, start of the script: it may fail to run; else it
\* reads the front window and errors unless it is "Save" or contains "Export"
SelectTextCheck ==
    /\ pc = "st_check"
    /\ \E runs \in BOOLEAN :
          IF runs /\ (window = T_Save \/ Contains(EXPORT_DIALOG_PREFIX, window))
          THEN /\ pc' = "st_select"
               /\ lastCheck' = window
               /\ UNCHANGED out
          ELSE /\ lastCheck' = IF runs THEN window ELSE NoCheck
               /\ Return(FALSE, "not_safe_dialog", NoTitle)
    /\ UNCHANGED <<app, cli, osc, window, attempt, waited, escLeft, escThen,
                   branch, tfResult, lengthBars, ui, obs>>

\* select_text_in_field: keystroke "a" using {command down}
SelectTextSelectAll ==
    /\ pc = "st_select"
    /\ ui' = [ui EXCEPT !.selectGate = lastCheck]
    /\ lastCheck' = NoCheck
    /\ Return(TRUE, "selected", NoTitle)
    /\ UNCHANGED <<app, cli, osc, window, attempt, waited, escLeft, escThen,
                   branch, tfResult, lengthBars, obs>>

---------------------------------------------------------------------------
(* core.export_arrangement *)

\* return ExportResult(success=False, ...) of export_arrangement
ArrangementFailure(step, kind, title) ==
    /\ pc' = "done"
    /\ out' = [out EXCEPT !.result = "failure", !.step = step, !.kind = kind,
                          !.title = title, !.escSince = 0]

\* export_arrangement up to activate_ableton(): the audio range, the
\* filename.  get_arrangement_audio_range reads clips[0]['start_time'] of the
\* first track that is neither muted nor a group and has clips; it returns
\* None when there is no such track.  (skipped: every track is muted or a
\* group.)  lengthBars holds audio_range.length_bars, 0 for no audio_range.
ExportArrangementSetup ==
    /\ pc = "idle"
    /\ \E auto_detect_range \in BOOLEAN, count \in 0..MaxTracks, skipped \in BOOLEAN,
          n \in 0..MaxClips, queriesOk \in BOOLEAN,
          custom_filename \in Filenames \cup {NoTitle}, bars \in 1..MaxBars :
          LET clips == get_arrangement_clips([i \in 1..(n + 1) |-> "x"], queriesOk)
              has_clips == count > 0 /\ ~skipped /\ Len(clips) > 0
              filename == IF custom_filename # NoTitle THEN custom_filename
                          ELSE <<"arrangement", "_", "120", "bpm">>
          IN  IF auto_detect_range /\ has_clips /\ ~ClipIsSubscriptable
              THEN /\ pc' = "done"
                   /\ out' = [out EXCEPT !.result = "raised", !.kind = "TypeError"]
                   /\ UNCHANGED lengthBars
              ELSE IF auto_detect_range /\ ~has_clips
              THEN /\ pc' = "done"
                   /\ out' = [out EXCEPT !.result = "failure",
                                         !.kind = "no_audio_clips"]
                   /\ UNCHANGED lengthBars
              ELSE /\ pc' = "ar_activate"
                   /\ out' = [out EXCEPT !.filename = filename]
                   /\ lengthBars' = IF auto_detect_range THEN bars ELSE 0
    /\ UNCHANGED <<app, cli, osc, window, attempt, waited, escLeft, escThen, branch, tfResult,
                   lastCheck, ui, obs>>

\* export_arrangement: activate_ableton()
ArrangementActivate ==
    /\ pc = "ar_activate"
    /\ lastCheck' = NoCheck
    /\ \E ok \in BOOLEAN :
          IF ok
          THEN pc' = "ar_open" /\ UNCHANGED out
          ELSE ArrangementFailure("activate", "activation_failed", NoTitle)
    /\ UNCHANGED <<app, cli, osc, window, attempt, waited, escLeft, escThen,
                   branch, tfResult, lengthBars, ui, obs>>

\* export_arrangement: open_export_dialog()
ArrangementOpen ==
    /\ pc = "ar_open"
    /\ lastCheck' = NoCheck
    /\ ui' = [ui EXCEPT !.shortcut = TRUE, !.shortcuts = @ + 1]
    /\ \E ok \in BOOLEAN :
          IF ok
          THEN pc' = "ar_verify" /\ UNCHANGED out
          ELSE ArrangementFailure("open_export_dialog", "open_failed", NoTitle)
    /\ UNCHANGED <<app, cli, osc, window, attempt, waited, escLeft, escThen,
                   branch, tfResult, lengthBars, obs>>

\* export_arrangement: verify_in_dialog() and the Export test; with an
\* audio_range the render range is set next
ArrangementVerify ==
    /\ pc = "ar_verify"
    /\ \E window_name \in verify_in_dialog(window) :
          /\ lastCheck' = window_name
          /\ IF ~Contains(EXPORT_DIALOG_PREFIX, window_name)
             THEN /\ pc' = "ar_escape"
                  /\ out' = [out EXCEPT !.step = "verify_export",
                                        !.kind = "expected_export",
                                        !.title = window_name, !.escSince = 0]
             ELSE /\ pc' = IF lengthBars > 0 THEN "ar_set_range" ELSE "ar_click"
                  /\ UNCHANGED out
    /\ UNCHANGED <<app, cli, osc, window, attempt, waited, escLeft, escThen,
                   branch, tfResult, lengthBars, ui, obs>>

\* export_arrangement: close_dialog_with_escape() and the failure return
\* that follows it
ArrangementEscape ==
    /\ pc = "ar_escape"
    /\ pc' = "done"
    /\ lastCheck' = NoCheck
    /\ ui' = [ui EXCEPT !.escapes = @ + 1]
    /\ out' = [out EXCEPT !.result = "failure", !.escSince = @ + 1]
    /\ UNCHANGED <<app, cli, osc, window, attempt, waited, escLeft, escThen,
                   branch, tfResult, lengthBars, obs>>

\* export_arrangement: the script that clicks button 10 (Export)
ArrangementClickExport ==
    /\ pc = "ar_click"
    /\ lastCheck' = NoCheck
    /\ waited' = 0
    /\ \E success \in BOOLEAN :
          IF success
          THEN /\ pc' = "sub_check"
               /\ ui' = [ui EXCEPT !.button10 = TRUE]
               /\ UNCHANGED out
          ELSE /\ pc' = "ar_escape"
               /\ UNCHANGED ui
               /\ out' = [out EXCEPT !.step = "click_export",
                                     !.kind = "click_failed", !.escSince = 0]
    /\ UNCHANGED <<app, cli, osc, window, attempt, escLeft, escThen,
                   branch, tfResult, lengthBars, obs>>

\* export_arrangement: except Exception as e around
\* _handle_export_confirmation_and_wait(), and the failure return
ArrangementExcept ==
    /\ pc = "handler"
    /\ pc' = "done"
    /\ out' = [out EXCEPT !.result = "failure"]
    /\ UNCHANGED <<app, cli, osc, window, attempt, waited, escLeft, escThen, branch, tfResult,
                   lastCheck, lengthBars, ui, obs>>

---------------------------------------------------------------------------
(* AbletonExportAutomation.export_track, the batch path *)

\* invalid_chars = '<>:"/\\|?*'
InvalidChars == {"<", ">", ":", "\"", "/", "\\", "|", "?", "*"}

\* characters str.strip() removes (those of them the inputs use)
Whitespace == {" ", "\t", "\n"}

RECURSIVE LStrip(_)
LStrip(s) ==
    IF Len(s) > 0 /\ Head(s) \in Whitespace THEN LStrip(Tail(s)) ELSE s

RECURSIVE RStrip(_)
RStrip(s) ==
    IF Len(s) > 0 /\ s[Len(s)] \in Whitespace
    THEN RStrip(SubSeq(s, 1, Len(s) - 1)) ELSE s

\* _sanitize_filename, on a name given as its sequence of characters: each
\* invalid character becomes "_", then the result is stripped
SanitizeFilename(name) ==
    LET result == [i \in 1..Len(name) |->
                      IF name[i] \in InvalidChars THEN "_" ELSE name[i]]
    IN  RStrip(LStrip(result))

\* track names, as sequences of characters
TrackNames == {<<"K", "i", "c", "k">>, <<" ", "a", "/", "b", " ">>}

\* a key sent by the batch path, with the title check that came right before
BatchKey(key) == Append(ui.batchKeys, [key |-> key, gate |-> lastCheck])

\* return False / return True of the batch export_track
BatchReturn(ok, kind) ==
    /\ pc' = "done"
    /\ out' = [out EXCEPT !.result = IF ok THEN "success" ELSE "failure",
                          !.step = "batch", !.kind = kind]

\* export_track(track_name, filename): a filename of None is replaced by
\* the sanitized track name
BatchExportTrack ==
    /\ pc = "idle"
    /\ pc' = "ba_activate"
    /\ \E track_name \in TrackNames, filename \in Filenames \cup {NoTitle} :
          out' = [out EXCEPT !.filename = IF filename = NoTitle
                                          THEN SanitizeFilename(track_name)
                                          ELSE filename]
    /\ UNCHANGED <<app, cli, osc, window, attempt, waited, escLeft, escThen, branch, tfResult,
                   lastCheck, lengthBars, ui, obs>>

\* activate_ableton()
BatchActivate ==
    /\ pc = "ba_activate"
    /\ lastCheck' = NoCheck
    /\ \E ok \in BOOLEAN :
          IF ok
          THEN pc' = "ba_open" /\ UNCHANGED out
          ELSE BatchReturn(FALSE, "activation_failed")
    /\ UNCHANGED <<app, cli, osc, window, attempt, waited, escLeft, escThen,
                   branch, tfResult, lengthBars, ui, obs>>

\* open_export_dialog()
BatchOpen ==
    /\ pc = "ba_open"
    /\ lastCheck' = NoCheck
    /\ ui' = [ui EXCEPT !.shortcut = TRUE, !.shortcuts = @ + 1]
    /\ \E ok \in BOOLEAN :
          IF ok
          THEN pc' = "ba_enter" /\ UNCHANGED out
          ELSE BatchReturn(FALSE, "open_failed")
    /\ UNCHANGED <<app, cli, osc, window, attempt, waited, escLeft, escThen,
                   branch, tfResult, lengthBars, obs>>

\* press_enter() "to accept defaults": the confirm of the Export dialog
BatchConfirmEnter ==
    /\ pc = "ba_enter"
    /\ lastCheck' = NoCheck
    /\ \E ok \in BOOLEAN :
          IF ok
          THEN /\ pc' = "ba_goto"
               /\ ui' = [ui EXCEPT !.confirm = TRUE, !.enters = @ + 1,
                                   !.batchKeys = BatchKey("confirm_enter")]
               /\ UNCHANGED out
          ELSE /\ BatchReturn(FALSE, "enter_failed")
               /\ UNCHANGED ui
    /\ UNCHANGED <<app, cli, osc, window, attempt, waited, escLeft, escThen,
                   branch, tfResult, lengthBars, obs>>

\* _handle_save_dialog: set_file_save_location(self.output_folder), one
\* script sending Cmd+Shift+G, the path and Return; its result is not read
BatchSetFileSaveLocation ==
    /\ pc = "ba_goto"
    /\ pc' = "tf_check"
    /\ lastCheck' = NoCheck
    /\ ui' = [ui EXCEPT !.batchKeys = BatchKey("goto_folder")]
    /\ UNCHANGED <<app, cli, osc, window, attempt, waited, escLeft, escThen,
                   branch, tfResult, lengthBars, obs, out>>

\* press_enter() "to save", whatever _handle_save_dialog did; return True
BatchSaveEnter ==
    /\ pc = "start_enter"
    /\ lastCheck' = NoCheck
    /\ ui' = [ui EXCEPT !.start = TRUE, !.enters = @ + 1,
                        !.batchKeys = BatchKey("save_enter")]
    /\ BatchReturn(TRUE, "triggered")
    /\ UNCHANGED <<app, cli, osc, window, attempt, waited, escLeft, escThen,
                   branch, tfResult, lengthBars, obs>>

---------------------------------------------------------------------------
(* The specification *)

Next ==
    \/ EnvChange
    \/ CallSafeExport
    \/ Activate
    \/ CheckFrontmost
    \/ OpenExportDialog
    \/ OpenVerify
    \/ AbortAndEscape
    \/ ExceptHandler
    \/ Confirm
    \/ ConfirmVerify
    \/ SetFileSaveLocation
    \/ TypeFilenameCheck
    \/ TypeFilenameSelectAll
    \/ TypeFilenameType
    \/ StartEnter
    \/ WaitPoll
    \/ WaitFinal
    \/ HandleExportConfirmation
    \/ ClickProceed
    \/ WaitPollLive12
    \/ TimeoutLive12
    \/ ExportTrackSetup
    \/ CallSetRange
    \/ SetRangeVerify
    \/ SetRangeImport
    \/ SetRangePosition
    \/ SetRangeTripleClick
    \/ SetRangeSelectAll
    \/ SetRangeType
    \/ SetRangeTab
    \/ SetRangeReadBack
    \/ CallSelectAllAndDelete
    \/ SelectAllAndDelete
    \/ CallVerifyInDialog
    \/ VerifyInDialogReturn
    \/ CallSelectText
    \/ SelectTextCheck
    \/ SelectTextSelectAll

Spec == Init /\ [][Next]_vars

\* one call of core.export_arrangement
NextArrangement ==
    \/ EnvChange
    \/ ExportArrangementSetup
    \/ ArrangementActivate
    \/ ArrangementOpen
    \/ ArrangementVerify
    \/ ArrangementEscape
    \/ ArrangementClickExport
    \/ HandleExportConfirmation
    \/ ClickProceed
    \/ WaitPollLive12
    \/ TimeoutLive12
    \/ ArrangementExcept

SpecArrangement == Init /\ [][NextArrangement]_vars

\* one call of AbletonExportAutomation.export_track
NextBatch ==
    \/ EnvChange
    \/ BatchExportTrack
    \/ BatchActivate
    \/ BatchOpen
    \/ BatchConfirmEnter
    \/ BatchSetFileSaveLocation
    \/ TypeFilenameCheck
    \/ TypeFilenameSelectAll
    \/ TypeFilenameType
    \/ BatchSaveEnter

SpecBatch == Init /\ [][NextBatch]_vars

---------------------------------------------------------------------------
(* osc_client.AbletonOSCClient: query and the receiver thread.  The thread
   calling query and the handler of the receiving server are two threads;
   each statement of query and of _handle_response is one step. *)

MaxQueries == 2
MaxDatagrams == 2

\* the positions of a running query, after its event is registered
QueryPcs == {"q_pop", "q_send", "q_wait"}

\* query: event = threading.Event(); self._response_events[address] = event
QueryRegister ==
    /\ pc = "idle"
    /\ osc.queries < MaxQueries
    /\ pc' = "q_pop"
    /\ \E address \in Addresses :
          osc' = [osc EXCEPT !.address = address,
                             !.events[address] = "clear",
                             !.queries = @ + 1,
                             !.result = "none",
                             !.answer = NoReq, !.how = "none",
                             !.arrived = FALSE, !.stray = FALSE]
    /\ UNCHANGED <<app, cli, window, attempt, waited, escLeft, escThen, branch, tfResult,
                   lastCheck, lengthBars, ui, obs, out>>

\* query: self._responses.pop(address, None)
QueryPop ==
    /\ pc = "q_pop"
    /\ pc' = "q_send"
    /\ osc' = [osc EXCEPT !.responses[osc.address] = "absent",
                          !.from[osc.address] = NoReq]
    /\ UNCHANGED <<app, cli, window, attempt, waited, escLeft, escThen, branch, tfResult,
                   lastCheck, lengthBars, ui, obs, out>>

\* query: self.client.send_message(address, list(args))
QuerySend ==
    /\ pc = "q_send"
    /\ pc' = "q_wait"
    /\ osc' = [osc EXCEPT !.requests = Append(@, osc.address)]
    /\ UNCHANGED <<app, cli, window, attempt, waited, escLeft, escThen, branch, tfResult,
                   lastCheck, lengthBars, ui, obs, out>>

\* query: event.wait(timeout) returns True, the event being set:
\* return self._responses.get(address)
QueryReturn ==
    /\ pc = "q_wait"
    /\ osc.events[osc.address] = "set"
    /\ pc' = "done"
    /\ osc' = [osc EXCEPT !.result = IF osc.responses[osc.address] = "absent"
                                      THEN "None"
                                      ELSE osc.responses[osc.address],
                          !.answer = osc.from[osc.address],
                          !.how = "event"]
    /\ UNCHANGED <<app, cli, window, attempt, waited, escLeft, escThen, branch, tfResult,
                   lastCheck, lengthBars, ui, obs, out>>

\* query: event.wait(timeout) returns False when the timeout has passed
\* with the event not set: return None
QueryTimeout ==
    /\ pc = "q_wait"
    /\ osc.events[osc.address] # "set"
    /\ pc' = "done"
    /\ osc' = [osc EXCEPT !.result = "None", !.how = "timeout"]
    /\ UNCHANGED <<app, cli, window, attempt, waited, escLeft, escThen, branch, tfResult,
                   lastCheck, lengthBars, ui, obs, out>>

\* the caller makes its next query
QueryNext ==
    /\ pc = "done"
    /\ osc.queries \in 1..(MaxQueries - 1)
    /\ pc' = "idle"
    /\ UNCHANGED <<app, cli, osc, window, attempt, waited, escLeft, escThen, branch, tfResult,
                   lastCheck, lengthBars, ui, obs, out>>

\* the requests sent so far on address: a reply is produced for one of them
RequestsOn(address) ==
    {q \in DOMAIN osc.requests : osc.requests[q] = address}

\* the network: Live (or anything else) sends a datagram to the receive
\* port: the reply to a query, a late reply to an earlier one, or a message
\* that answers no request of this client
Datagram ==
    /\ osc.delivered + Cardinality(osc.inflight) < MaxDatagrams
    /\ \E address \in Addresses, args \in Payloads :
       \E req \in {Unsolicited} \cup RequestsOn(address) :
          LET m == [address |-> address, args |-> args, req |-> req]
          IN  /\ m \notin osc.inflight
              /\ osc' = [osc EXCEPT !.inflight = @ \cup {m}]
    /\ UNCHANGED <<app, cli, pc, window, attempt, waited, escLeft, escThen, branch, tfResult,
                   lastCheck, lengthBars, ui, obs, out>>

\* what handling a message on address adds to the record of the running query
Handled(address) ==
    [arrived |-> osc.arrived \/ (pc \in QueryPcs /\ address = osc.address),
     stray |-> osc.stray \/ (pc \in QueryPcs /\ address # osc.address)]

\* _handle_response: self._responses[address] = args
HandleStore ==
    /\ osc.handling = << >>
    /\ \E m \in osc.inflight :
          osc' = [osc EXCEPT !.inflight = @ \ {m},
                             !.delivered = @ + 1,
                             !.handling = <<m>>,
                             !.responses[m.address] = m.args,
                             !.from[m.address] = m.req,
                             !.arrived = Handled(m.address).arrived,
                             !.stray = Handled(m.address).stray]
    /\ UNCHANGED <<app, cli, pc, window, attempt, waited, escLeft, escThen, branch, tfResult,
                   lastCheck, lengthBars, ui, obs, out>>

\* Faulty variant of HandleSet: every registered event is set, whatever the
\* address of the message
HandleSet_AnyAddress ==
    /\ osc.handling # << >>
    /\ LET address == osc.handling[1].address
       IN  osc' = [osc EXCEPT !.handling = << >>,
                              !.events = [a \in Addresses |->
                                            IF osc.events[a] # "none"
                                            THEN "set" ELSE "none"],
                              !.arrived = Handled(address).arrived,
                              !.stray = Handled(address).stray]
    /\ UNCHANGED <<app, cli, pc, window, attempt, waited, escLeft, escThen, branch, tfResult,
                   lastCheck, lengthBars, ui, obs, out>>

\* _handle_response: if address in self._response_events:
\*     self._response_events[address].set()
HandleSet ==
    /\ osc.handling # << >>
    /\ LET address == osc.handling[1].address
       IN  osc' = [osc EXCEPT !.handling = << >>,
                              !.events[address] = IF osc.events[address] # "none"
                                                  THEN "set" ELSE "none",
                              !.arrived = Handled(address).arrived,
                              !.stray = Handled(address).stray]
    /\ UNCHANGED <<app, cli, pc, window, attempt, waited, escLeft, escThen, branch, tfResult,
                   lastCheck, lengthBars, ui, obs, out>>

NextOsc ==
    \/ QueryRegister
    \/ QueryPop
    \/ QuerySend
    \/ QueryReturn
    \/ QueryTimeout
    \/ QueryNext
    \/ Datagram
    \/ HandleStore
    \/ HandleSet

SpecOsc == Init /\ [][NextOsc]_vars

---------------------------------------------------------------------------
(* AbletonExporter.export_group: the loop over the tracks of a group, each
   exported by AbletonExportAutomation.export_track *)

\* the loop of export_group over n tracks: i is the loop index, delays the
\* number of time.sleep(delay_between_exports) made, results the list
\* returned, events what the loop did, in order
GroupInit(n) ==
    [n |-> n, i |-> 0, delays |-> 0, results |-> << >>, events |-> << >>,
     child_tracks |-> << >>,  \* group.child_tracks, empty when no group
                              \* was found
     tracks |-> << >>,        \* tracks_to_export: positions in child_tracks
     ranged |-> TRUE]         \* the time range could be determined

\* the children a group can have: each is muted or not, with clips or not
ChildLists ==
    UNION {[1..len -> [is_enabled : BOOLEAN, has_audio : BOOLEAN]] :
             len \in 0..MaxChildren}

\* Group.enabled_tracks_with_audio: the children that are enabled and have
\* audio, in the order of child_tracks (each named by its position)
RECURSIVE EnabledFrom(_, _)
EnabledFrom(child_tracks, k) ==
    IF k > Len(child_tracks)
    THEN << >>
    ELSE (IF child_tracks[k].is_enabled /\ child_tracks[k].has_audio
          THEN <<k>> ELSE << >>) \o EnabledFrom(child_tracks, k + 1)

enabled_tracks_with_audio(child_tracks) == EnabledFrom(child_tracks, 1)

\* Group.audio_start and audio_end are None exactly when no child has clips
HasAudioRange(child_tracks) ==
    \E k \in DOMAIN child_tracks : child_tracks[k].has_audio

NoPath == << >>

\* ExportResult(track_name=track.name, success=success,
\*              output_path=... / f"{track.name}.wav" if success else None)
\* of the track the loop is at
GroupResult ==
    LET track == out.group.tracks[out.group.i + 1]
        success == out.result = "success"
    IN  [track_name |-> track,
         success |-> success,
         output_path |-> IF success THEN <<"output_folder", track, ".wav">>
                         ELSE NoPath]

GroupEvent(ev) == Append(out.group.events, [ev |-> ev, track |-> out.group.i])

\* export_group up to its loop: the group is looked up, its enabled tracks
\* with audio and the time range are taken; any of these missing returns [].
\* The range is taken from the clips (auto_range) or from the arguments
\* start_beats and length_beats, which may not have been given.
ExportGroup ==
    /\ pc = "idle"
    /\ \E found \in BOOLEAN, child_tracks \in ChildLists,
          auto_range \in BOOLEAN, given \in BOOLEAN :
          LET tracks_to_export == enabled_tracks_with_audio(child_tracks)
              ranged == IF auto_range THEN HasAudioRange(child_tracks)
                        ELSE given
          IN  /\ ~found => child_tracks = << >>
              /\ IF found /\ tracks_to_export # << >> /\ ranged
                 THEN /\ pc' = "eg_select"
                      /\ out' = [out EXCEPT !.group =
                                    [GroupInit(Len(tracks_to_export)) EXCEPT
                                       !.child_tracks = child_tracks,
                                       !.tracks = tracks_to_export]]
                 ELSE /\ pc' = "done"
                      /\ out' = [out EXCEPT !.group =
                                    [GroupInit(0) EXCEPT
                                       !.child_tracks = child_tracks,
                                       !.tracks = tracks_to_export,
                                       !.ranged = ranged]]
    /\ lastCheck' = NoCheck
    /\ UNCHANGED <<app, cli, osc, window, attempt, waited, escLeft, escThen, branch, tfResult,
                   lengthBars, ui, obs>>

\* the loop body: select_track(self.osc_client, track.index)
GroupSelectTrack ==
    /\ pc = "eg_select"
    /\ pc' = "eg_export"
    /\ out' = [out EXCEPT !.group.events = GroupEvent("select")]
    /\ UNCHANGED <<app, cli, osc, window, attempt, waited, escLeft, escThen, branch, tfResult,
                   lastCheck, lengthBars, ui, obs>>

\* the loop body: self.automation.export_track(track_name=track.name, ...)
\* is called; no filename is passed
GroupExportTrack ==
    /\ pc = "eg_export"
    /\ pc' = "ba_activate"
    /\ \E track_name \in TrackNames :
          out' = [out EXCEPT !.filename = SanitizeFilename(track_name),
                             !.group.events = GroupEvent("export")]
    /\ UNCHANGED <<app, cli, osc, window, attempt, waited, escLeft, escThen, branch, tfResult,
                   lastCheck, lengthBars, ui, obs>>

\* Faulty variant of GroupAfterExport: the delay is made after every track
GroupAfterExport_AlwaysDelays ==
    /\ pc = "done"
    /\ out.group # << >>
    /\ out.group.i < out.group.n
    /\ pc' = "eg_delay"
    /\ out' = [out EXCEPT
                  !.group.results = Append(@, GroupResult),
                  !.group.events = GroupEvent("returned")]
    /\ tfResult' = "none"
    /\ UNCHANGED <<app, cli, osc, window, attempt, waited, escLeft, escThen, branch,
                   lastCheck, lengthBars, ui, obs>>

\* Faulty variant of GroupAfterExport: a failed export ends the loop
GroupAfterExport_StopsOnFailure ==
    /\ pc = "done"
    /\ out.group # << >>
    /\ out.group.i < out.group.n
    /\ LET last == ~(out.group.i < out.group.n - 1) \/ out.result # "success"
       IN  /\ pc' = IF last THEN "done" ELSE "eg_delay"
           /\ out' = [out EXCEPT
                         !.group.results = Append(@, GroupResult),
                         !.group.events = GroupEvent("returned"),
                         !.group.i = IF last THEN out.group.n ELSE @]
    /\ tfResult' = "none"
    /\ UNCHANGED <<app, cli, osc, window, attempt, waited, escLeft, escThen, branch,
                   lastCheck, lengthBars, ui, obs>>

\* the loop body after export_track has returned: the result is appended;
\* unless this was the last track the delay follows, else the loop ends
GroupAfterExport ==
    /\ pc = "done"
    /\ out.group # << >>
    /\ out.group.i < out.group.n
    /\ LET last == ~(out.group.i < out.group.n - 1)
       IN  /\ pc' = IF last THEN "done" ELSE "eg_delay"
           /\ out' = [out EXCEPT
                         !.group.results = Append(@, GroupResult),
                         !.group.events = GroupEvent("returned"),
                         !.group.i = IF last THEN @ + 1 ELSE @]
    /\ tfResult' = "none"
    /\ UNCHANGED <<app, cli, osc, window, attempt, waited, escLeft, escThen, branch,
                   lastCheck, lengthBars, ui, obs>>

\* the loop body: time.sleep(delay_between_exports), then the next track
GroupDelay ==
    /\ pc = "eg_delay"
    /\ pc' = "eg_select"
    /\ out' = [out EXCEPT !.group.events = GroupEvent("delay"),
                          !.group.delays = @ + 1,
                          !.group.i = @ + 1]
    /\ UNCHANGED <<app, cli, osc, window, attempt, waited, escLeft, escThen, branch, tfResult,
                   lastCheck, lengthBars, ui, obs>>

NextGroup ==
    \/ EnvChange
    \/ ExportGroup
    \/ GroupSelectTrack
    \/ GroupExportTrack
    \/ BatchActivate
    \/ BatchOpen
    \/ BatchConfirmEnter
    \/ BatchSetFileSaveLocation
    \/ TypeFilenameCheck
    \/ TypeFilenameSelectAll
    \/ TypeFilenameType
    \/ BatchSaveEnter
    \/ GroupAfterExport
    \/ GroupDelay

SpecGroup == Init /\ [][NextGroup]_vars

---------------------------------------------------------------------------
(* Two calls of safe_export_with_filename in a row, with the same arguments,
   against an environment that is reset between the calls and gives both
   the same primitive outcomes and window titles.  Such an environment is a
   scenario: it fixes the outcome of each primitive and the title the front
   window has at each position of the call. *)

Scenarios ==
    [activateOk : BOOLEAN,       \* activate_ableton() succeeds
     frontLive : BOOLEAN,        \* _check_frontmost_app() reports "Live"
     openOk : BOOLEAN,           \* open_export_dialog() succeeds
     tOpen : {T_Export, T_Main},                  \* title after the shortcut
     tConfirm : {T_Save, T_Both, T_Export, T_Browser}, \* title after the confirm
     folder : BOOLEAN,           \* output_folder is given
     tfRuns : BOOLEAN,           \* the script typing the filename runs
     subOk : BOOLEAN,            \* the script looking for the confirmation runs
     openPolls : {0, 2, MaxWait, MaxWait + 1},    \* title reads of the wait
                                                  \* that still see tPoll
     tPoll : {T_Export, T_Save},
     tClose : {T_Main, T_Browser}]

\* the title the scenario gives the front window at the current position
ScenarioWindow ==
    LET s == obs.scenario
    IN  CASE pc \in {"act_activate", "act_check", "open"} -> T_Main
          [] pc \in {"open_verify", "confirm"} -> s.tOpen
          [] pc \in {"confirm_verify", "goto_folder", "tf_check", "tf_select",
                     "tf_type", "start_enter", "sub_check", "sub_click"} -> s.tConfirm
          [] pc \in {"wait_poll", "w12_poll"} ->
                IF waited < s.openPolls THEN s.tPoll ELSE s.tClose
          [] OTHER -> window

\* the environment puts up the window of the scenario
ScenarioEnv ==
    /\ pc \notin {"idle", "done"}
    /\ window # ScenarioWindow
    /\ window' = ScenarioWindow
    /\ UNCHANGED <<app, cli, osc, pc, attempt, waited, escLeft, escThen,
                   branch, tfResult, lastCheck, lengthBars, ui, obs, out>>

\* the first call: safe_export_with_filename(filename, output_folder)
TwiceFirstCall ==
    /\ pc = "idle"
    /\ pc' = "act_activate"
    /\ \E filename \in Filenames, s \in Scenarios :
          /\ out' = [out EXCEPT !.filename = filename, !.call = 1]
          /\ obs' = [obs EXCEPT !.scenario = s]
    /\ UNCHANGED <<app, cli, osc, window, attempt, waited, escLeft, escThen, branch, tfResult,
                   lastCheck, lengthBars, ui>>

\* what a call returned
Outcome(o) ==
    [result |-> o.result, step |-> o.step, kind |-> o.kind, title |-> o.title,
     final |-> o.final]

\* Faulty variant of TwiceSecondCall: the number of Escape keys sent is kept
\* in a module-level counter, and a call that finds it non-zero skips its
\* own abort
TwiceSecondCall_KeepsEscapes ==
    /\ pc = "done"
    /\ out.call = 1
    /\ pc' = IF ui.escapes > 0 THEN "open" ELSE "act_activate"
    /\ attempt' = 0 /\ waited' = 0 /\ escLeft' = 0 /\ escThen' = "none"
    /\ branch' = "none" /\ tfResult' = "none" /\ lastCheck' = NoCheck
    /\ ui' = UiInit
    /\ obs' = [ObsInit EXCEPT !.scenario = obs.scenario]
    /\ out' = [OutInit EXCEPT !.filename = out.filename, !.call = 2,
                              !.first = <<Outcome(out), ui>>]
    /\ UNCHANGED <<app, cli, osc, window, lengthBars>>

\* the second call, with the arguments of the first: the function has only
\* local variables, each call starts with fresh ones
TwiceSecondCall ==
    /\ pc = "done"
    /\ out.call = 1
    /\ pc' = "act_activate"
    /\ attempt' = 0 /\ waited' = 0 /\ escLeft' = 0 /\ escThen' = "none"
    /\ branch' = "none" /\ tfResult' = "none" /\ lastCheck' = NoCheck
    /\ ui' = UiInit
    /\ obs' = [ObsInit EXCEPT !.scenario = obs.scenario]
    /\ out' = [OutInit EXCEPT !.filename = out.filename, !.call = 2,
                              !.first = <<Outcome(out), ui>>]
    /\ UNCHANGED <<app, cli, osc, window, lengthBars>>

\* a step of the program in the window of the scenario
InScenario == window = ScenarioWindow

\* every title read succeeds and returns the title of the front window
ReadsWindow == lastCheck' = window

TwiceActivate ==
    InScenario /\ Activate /\ (pc' = "act_check" <=> obs.scenario.activateOk)

TwiceCheckFrontmost ==
    InScenario /\ CheckFrontmost /\ (out'.frontSeen <=> obs.scenario.frontLive)

TwiceOpenExportDialog ==
    InScenario /\ OpenExportDialog /\ (pc' = "open_verify" <=> obs.scenario.openOk)

TwiceOpenVerify == InScenario /\ OpenVerify /\ ReadsWindow

TwiceAbortAndEscape == InScenario /\ AbortAndEscape

TwiceExceptHandler == InScenario /\ ExceptHandler

TwiceConfirm == InScenario /\ Confirm

TwiceConfirmVerify ==
    /\ InScenario /\ ConfirmVerify /\ ReadsWindow
    /\ pc' = "goto_folder" => obs.scenario.folder
    /\ pc' = "tf_check" => ~obs.scenario.folder

TwiceSetFileSaveLocation == InScenario /\ SetFileSaveLocation

TwiceTypeFilenameCheck ==
    /\ InScenario /\ TypeFilenameCheck
    /\ lastCheck' = IF obs.scenario.tfRuns THEN window ELSE NoCheck

TwiceTypeFilenameSelectAll == InScenario /\ TypeFilenameSelectAll

TwiceTypeFilenameType == InScenario /\ TypeFilenameType

TwiceStartEnter == InScenario /\ StartEnter

TwiceWaitPoll == InScenario /\ WaitPoll /\ ReadsWindow

TwiceWaitFinal == InScenario /\ WaitFinal /\ ReadsWindow

TwiceHandleExportConfirmation ==
    InScenario /\ HandleExportConfirmation
        /\ (pc' = "sub_click" <=> obs.scenario.subOk)

TwiceClickProceed == InScenario /\ ClickProceed

TwiceWaitPollLive12 == InScenario /\ WaitPollLive12 /\ ReadsWindow

TwiceTimeoutLive12 == InScenario /\ TimeoutLive12

NextTwice ==
    \/ ScenarioEnv
    \/ TwiceFirstCall
    \/ TwiceSecondCall
    \/ TwiceActivate
    \/ TwiceCheckFrontmost
    \/ TwiceOpenExportDialog
    \/ TwiceOpenVerify
    \/ TwiceAbortAndEscape
    \/ TwiceExceptHandler
    \/ TwiceConfirm
    \/ TwiceConfirmVerify
    \/ TwiceSetFileSaveLocation
    \/ TwiceTypeFilenameCheck
    \/ TwiceTypeFilenameSelectAll
    \/ TwiceTypeFilenameType
    \/ TwiceStartEnter
    \/ TwiceWaitPoll
    \/ TwiceWaitFinal
    \/ TwiceHandleExportConfirmation
    \/ TwiceClickProceed
    \/ TwiceWaitPollLive12
    \/ TwiceTimeoutLive12

SpecTwice == Init /\ [][NextTwice]_vars

---------------------------------------------------------------------------
(* one call of safe_export_with_filename whose every primitive call
   returns: a step of the running call that can be taken is taken in the
   end.  The front window changes as it likes. *)

\* the statements of safe_export_with_filename and of the functions it calls
ExportStep ==
    \/ Activate
    \/ CheckFrontmost
    \/ OpenExportDialog
    \/ OpenVerify
    \/ AbortAndEscape
    \/ ExceptHandler
    \/ Confirm
    \/ ConfirmVerify
    \/ SetFileSaveLocation
    \/ TypeFilenameCheck
    \/ TypeFilenameSelectAll
    \/ TypeFilenameType
    \/ StartEnter
    \/ WaitPoll
    \/ WaitFinal
    \/ HandleExportConfirmation
    \/ ClickProceed
    \/ WaitPollLive12
    \/ TimeoutLive12

NextExport ==
    \/ EnvChange
    \/ CallSafeExport
    \/ ExportStep

SpecExport == Init /\ [][NextExport]_vars /\ WF_vars(ExportStep)

---------------------------------------------------------------------------
(* cli.py: main and the handlers of the subcommands.  pc = "cmd": main has
   parsed the arguments and calls the handler; pc = "exited": the process
   has exited.  A handler that raises ends the process with the
   interpreter's exit code for an uncaught exception, 1. *)

Commands == {"status", "tracks", "groups", "info", "find", "select",
             "range", "prepare", "export"}
Systems == {"Darwin", "Linux"}
CliTrackNames == {"Kick", ""}
\* the subcommands with an index argument
IndexCommands == {"info", "select", "prepare"}
UncaughtExceptionExit == 1

\* main: parser.parse_args(argv), commands.get(args.command)
CliMain ==
    /\ pc = "idle"
    /\ cli.command = "none"
    /\ pc' = "cmd"
    /\ \E command \in Commands, system \in Systems, index \in -1..MaxTracks :
          /\ command \notin IndexCommands => index = 0
          /\ cli' = [cli EXCEPT !.command = command, !.system = system,
                                !.index = index]
    /\ UNCHANGED <<app, osc, window, attempt, waited, escLeft, escThen, branch, tfResult,
                   lastCheck, lengthBars, ui, obs, out>>

\* client = get_osc_client(); status = check_connection(client)
Connect(connected) ==
    [cli EXCEPT !.clients = @ + 1,
                !.connected = IF connected THEN "yes" ELSE "no"]

\* the handler returns code, or raises (result = "raised")
Exit(c, code, result) ==
    [c EXCEPT !.exit = IF result = "raised" THEN UncaughtExceptionExit ELSE code,
              !.result = result]

\* client.send(address, arg) of the core operation op
Send(c, op, msgs) ==
    [c EXCEPT !.ops = @ \cup {op}, !.sent = @ \o msgs]

\* Faulty variant of CmdStatus: a failed check gives the generic error code
CmdStatus_GenericError ==
    /\ pc = "cmd" /\ cli.command = "status"
    /\ pc' = "exited"
    /\ \E connected \in BOOLEAN :
          cli' = IF connected
                 THEN Exit(Connect(TRUE), EXIT_SUCCESS, "success")
                 ELSE Exit(Connect(FALSE), EXIT_ERROR, "none")
    /\ UNCHANGED <<app, osc, window, attempt, waited, escLeft, escThen, branch, tfResult,
                   lastCheck, lengthBars, ui, obs, out>>

\* cmd_status
CmdStatus ==
    /\ pc = "cmd" /\ cli.command = "status"
    /\ pc' = "exited"
    /\ \E connected \in BOOLEAN :
          cli' = IF connected
                 THEN Exit(Connect(TRUE), EXIT_SUCCESS, "success")
                 ELSE Exit(Connect(FALSE), EXIT_CONNECTION_FAILED, "none")
    /\ UNCHANGED <<app, osc, window, attempt, waited, escLeft, escThen, branch, tfResult,
                   lastCheck, lengthBars, ui, obs, out>>

\* cmd_tracks: the check, get_all_tracks, EXIT_SUCCESS whether or not
\* anything was found
CmdTracks ==
    /\ pc = "cmd" /\ cli.command = "tracks"
    /\ pc' = "exited"
    /\ \E connected \in BOOLEAN :
          cli' = IF ~connected
                 THEN Exit(Connect(FALSE), EXIT_CONNECTION_FAILED, "none")
                 ELSE Exit(Send(Connect(TRUE), "get_all_tracks", << >>), EXIT_SUCCESS, "success")
    /\ UNCHANGED <<app, osc, window, attempt, waited, escLeft, escThen, branch, tfResult,
                   lastCheck, lengthBars, ui, obs, out>>

\* cmd_groups: the check, get_groups, EXIT_SUCCESS whether or not
\* anything was found
CmdGroups ==
    /\ pc = "cmd" /\ cli.command = "groups"
    /\ pc' = "exited"
    /\ \E connected \in BOOLEAN :
          cli' = IF ~connected
                 THEN Exit(Connect(FALSE), EXIT_CONNECTION_FAILED, "none")
                 ELSE Exit(Send(Connect(TRUE), "get_groups", << >>), EXIT_SUCCESS, "success")
    /\ UNCHANGED <<app, osc, window, attempt, waited, escLeft, escThen, branch, tfResult,
                   lastCheck, lengthBars, ui, obs, out>>

\* cmd_find: the check, find_tracks_by_name, EXIT_SUCCESS whether or not
\* anything was found
CmdFind ==
    /\ pc = "cmd" /\ cli.command = "find"
    /\ pc' = "exited"
    /\ \E connected \in BOOLEAN :
          cli' = IF ~connected
                 THEN Exit(Connect(FALSE), EXIT_CONNECTION_FAILED, "none")
                 ELSE Exit(Send(Connect(TRUE), "find_tracks_by_name", << >>), EXIT_SUCCESS, "success")
    /\ UNCHANGED <<app, osc, window, attempt, waited, escLeft, escThen, branch, tfResult,
                   lastCheck, lengthBars, ui, obs, out>>

\* get_track_details(client, track_index), count tracks in the set, n clips
\* on the track: None for an invalid index; clips[0]['start_time'] raises
\* when there is a clip
get_track_details(track_index, count, clips) ==
    IF track_index < 0 \/ track_index >= count THEN "failure"
    ELSE IF Len(clips) > 0 /\ ~ClipIsSubscriptable THEN "raised"
    ELSE "success"

\* cmd_info
CmdInfo ==
    /\ pc = "cmd" /\ cli.command = "info"
    /\ pc' = "exited"
    /\ \E connected \in BOOLEAN, count \in 0..MaxTracks, n \in 0..MaxClips,
          queriesOk \in BOOLEAN :
          LET clips == get_arrangement_clips([i \in 1..(n + 1) |-> "x"], queriesOk)
              track == get_track_details(cli.index, count, clips)
          IN  cli' = IF ~connected
                     THEN Exit(Connect(FALSE), EXIT_CONNECTION_FAILED, "none")
                     ELSE Exit(Send(Connect(TRUE), "get_track_details", << >>),
                               IF track = "failure" THEN EXIT_ERROR ELSE EXIT_SUCCESS,
                               track)
    /\ UNCHANGED <<app, osc, window, attempt, waited, escLeft, escThen, branch, tfResult,
                   lastCheck, lengthBars, ui, obs, out>>

\* select_track(client, track_index)
SelectTrackMessage(track_index) ==
    [address |-> "/live/view/set/selected_track", arg |-> track_index]

\* Faulty variant of select_track_by_index: the track is selected before the
\* index is checked
select_track_by_index_SelectFirst(c, track_index, count, name) ==
    IF track_index < 0 \/ track_index >= count
    THEN [Send(c, "select_track_by_index", <<SelectTrackMessage(track_index)>>)
            EXCEPT !.result = "failure", !.count = count,
                   !.message = [text |-> "Invalid track index. Valid range: 0-",
                                index |-> count - 1, name |-> ""]]
    ELSE [Send(c, "select_track_by_index", <<SelectTrackMessage(track_index)>>)
            EXCEPT !.result = "success", !.count = count,
                   !.message = [text |-> "Selected track",
                                index |-> track_index, name |-> name]]

\* select_track_by_index(client, track_index); count is what get_track_count
\* returned, name what get_track_name returned
select_track_by_index(c, track_index, count, name) ==
    IF track_index < 0 \/ track_index >= count
    THEN [Send(c, "select_track_by_index", << >>)
            EXCEPT !.result = "failure", !.count = count,
                   !.message = [text |-> "Invalid track index. Valid range: 0-",
                                index |-> count - 1, name |-> ""]]
    ELSE [Send(c, "select_track_by_index", <<SelectTrackMessage(track_index)>>)
            EXCEPT !.result = "success", !.count = count,
                   !.message = [text |-> "Selected track",
                                index |-> track_index, name |-> name]]

\* cmd_select
CmdSelect ==
    /\ pc = "cmd" /\ cli.command = "select"
    /\ pc' = "exited"
    /\ \E connected \in BOOLEAN, count \in 0..MaxTracks, name \in CliTrackNames :
          cli' = IF ~connected
                 THEN Exit(Connect(FALSE), EXIT_CONNECTION_FAILED, "none")
                 ELSE LET c == select_track_by_index(Connect(TRUE), cli.index,
                                                     count, name)
                      IN  Exit(c, IF c.result = "success" THEN EXIT_SUCCESS
                                  ELSE EXIT_ERROR, c.result)
    /\ UNCHANGED <<app, osc, window, attempt, waited, escLeft, escThen, branch, tfResult,
                   lastCheck, lengthBars, ui, obs, out>>

\* set_loop_range(client, start_beats, length_beats)
LoopRangeMessages(start_beats, length_beats) ==
    <<[address |-> "/live/song/set/loop_start", arg |-> start_beats],
      [address |-> "/live/song/set/loop_length", arg |-> length_beats]>>

\* cmd_range: set_export_range always returns its message
CmdRange ==
    /\ pc = "cmd" /\ cli.command = "range"
    /\ pc' = "exited"
    /\ \E connected \in BOOLEAN, start \in 0..1, length \in 1..MaxBars :
          cli' = IF ~connected
                 THEN Exit(Connect(FALSE), EXIT_CONNECTION_FAILED, "none")
                 ELSE Exit(Send(Connect(TRUE), "set_export_range",
                                LoopRangeMessages(start, length)),
                           EXIT_SUCCESS, "success")
    /\ UNCHANGED <<app, osc, window, attempt, waited, escLeft, escThen, branch, tfResult,
                   lastCheck, lengthBars, ui, obs, out>>

\* prepare_track_for_export(client, track_index)
prepare_track_for_export(c, track_index, count, clips) ==
    IF track_index < 0 \/ track_index >= count
    THEN [Send(c, "prepare_track_for_export", << >>) EXCEPT !.result = "failure"]
    ELSE IF Len(clips) = 0
    THEN [Send(c, "prepare_track_for_export", << >>) EXCEPT !.result = "failure"]
    ELSE IF ~ClipIsSubscriptable
    THEN [Send(c, "prepare_track_for_export", << >>) EXCEPT !.result = "raised"]
    ELSE [Send(c, "prepare_track_for_export",
               LoopRangeMessages(0, Len(clips)) \o <<SelectTrackMessage(track_index)>>)
            EXCEPT !.result = "success"]

\* cmd_prepare
CmdPrepare ==
    /\ pc = "cmd" /\ cli.command = "prepare"
    /\ pc' = "exited"
    /\ \E connected \in BOOLEAN, count \in 0..MaxTracks, n \in 0..MaxClips,
          queriesOk \in BOOLEAN :
          LET clips == get_arrangement_clips([i \in 1..(n + 1) |-> "x"], queriesOk)
          IN  cli' = IF ~connected
                     THEN Exit(Connect(FALSE), EXIT_CONNECTION_FAILED, "none")
                     ELSE LET c == prepare_track_for_export(Connect(TRUE), cli.index,
                                                            count, clips)
                          IN  Exit(c, IF c.result = "success" THEN EXIT_SUCCESS
                                      ELSE EXIT_ERROR, c.result)
    /\ UNCHANGED <<app, osc, window, attempt, waited, escLeft, escThen, branch, tfResult,
                   lastCheck, lengthBars, ui, obs, out>>

\* Faulty variant of CmdExport: the connection is checked before the host
\* system
CmdExport_ConnectsFirst ==
    /\ pc = "cmd" /\ cli.command = "export"
    /\ \E connected \in BOOLEAN :
          IF ~connected
          THEN /\ pc' = "exited"
               /\ cli' = Exit(Connect(FALSE), EXIT_CONNECTION_FAILED, "none")
          ELSE IF cli.system # "Darwin"
          THEN /\ pc' = "exited"
               /\ cli' = Exit(Connect(TRUE), EXIT_ERROR, "none")
          ELSE /\ pc' = "idle"
               /\ cli' = Send(Connect(TRUE), "export_track", << >>)
    /\ UNCHANGED <<app, osc, window, attempt, waited, escLeft, escThen, branch, tfResult,
                   lastCheck, lengthBars, ui, obs, out>>

\* cmd_export up to its call of export_track (pc = "idle" with
\* cli.command = "export": export_track is being entered)
CmdExport ==
    /\ pc = "cmd" /\ cli.command = "export"
    /\ IF cli.system # "Darwin"
       THEN /\ pc' = "exited"
            /\ cli' = Exit(cli, EXIT_ERROR, "none")
       ELSE \E connected \in BOOLEAN :
              IF ~connected
              THEN /\ pc' = "exited"
                   /\ cli' = Exit(Connect(FALSE), EXIT_CONNECTION_FAILED, "none")
              ELSE /\ pc' = "idle"
                   /\ cli' = Send(Connect(TRUE), "export_track", << >>)
    /\ UNCHANGED <<app, osc, window, attempt, waited, escLeft, escThen, branch, tfResult,
                   lastCheck, lengthBars, ui, obs, out>>

\* export_track as cmd_export calls it
CliExportTrack == cli.command = "export" /\ ExportTrackSetup

\* cmd_export after export_track: the exit code from result.success
CmdExportReturn ==
    /\ pc = "done" /\ cli.command = "export"
    /\ pc' = "exited"
    /\ cli' = Exit(cli, IF out.result = "success" THEN EXIT_SUCCESS ELSE EXIT_ERROR,
                   out.result)
    /\ UNCHANGED <<app, osc, window, attempt, waited, escLeft, escThen, branch, tfResult,
                   lastCheck, lengthBars, ui, obs, out>>

NextCli ==
    \/ CliMain
    \/ CmdStatus
    \/ CmdTracks
    \/ CmdGroups
    \/ CmdInfo
    \/ CmdFind
    \/ CmdSelect
    \/ CmdRange
    \/ CmdPrepare
    \/ CmdExport
    \/ CliExportTrack
    \/ CmdExportReturn
    \/ EnvChange
    \/ Activate
    \/ CheckFrontmost
    \/ OpenExportDialog
    \/ OpenVerify
    \/ AbortAndEscape
    \/ ExceptHandler
    \/ Confirm
    \/ ConfirmVerify
    \/ SetFileSaveLocation
    \/ TypeFilenameCheck
    \/ TypeFilenameSelectAll
    \/ TypeFilenameType
    \/ StartEnter
    \/ WaitPoll
    \/ WaitFinal
    \/ HandleExportConfirmation
    \/ ClickProceed
    \/ WaitPollLive12
    \/ TimeoutLive12

SpecCli == Init /\ [][NextCli]_vars

---------------------------------------------------------------------------
(* gui_automation.run_applescript, applied to every way subprocess.run can
   end: the script exits with a return code and an output, the 30 s
   timeout expires, the subprocess module or the system fails, or the
   output cannot be decoded (a ValueError, which no except clause names) *)

MaxOutLen == 3

\* the sequences over S of length up to n
SeqsUpTo(S, n) == UNION {[1..k -> S] : k \in 0..n}

OutputChars == {"o", " ", "\n"}

Procs ==
    [kind : {"exit"}, returncode : {0, 1}, stdout : SeqsUpTo(OutputChars, MaxOutLen),
     detail : {""}]
    \cup [kind : {"TimeoutExpired"}, returncode : {0}, stdout : {<< >>},
          detail : {"timed out"}]
    \cup [kind : {"SubprocessError", "OSError", "UnicodeDecodeError"},
          returncode : {0}, stdout : {<< >>}, detail : {"e1", "e2"}]

InitApplescript ==
    /\ pc = "idle" /\ window = T_Main
    /\ attempt = 0 /\ waited = 0 /\ escLeft = 0 /\ escThen = "none"
    /\ branch = "none" /\ tfResult = "none"
    /\ lastCheck = NoCheck /\ lengthBars = 0
    /\ ui = UiInit /\ obs = ObsInit /\ out = OutInit
    /\ osc = OscInit /\ cli = CliInit
    /\ \E proc \in Procs : app = [AppInit EXCEPT !.proc = proc]

\* Faulty variant of run_applescript: a script that fails reports what its
\* return code says only when it printed something
run_applescript_OutputMeansSuccess(proc) ==
    CASE proc.kind = "exit" ->
           [raised |-> FALSE,
            ok |-> proc.returncode = 0 \/ RStrip(LStrip(proc.stdout)) = << >>,
            output |-> RStrip(LStrip(proc.stdout))]
      [] proc.kind = "TimeoutExpired" ->
           [raised |-> FALSE, ok |-> FALSE, output |-> <<"Timeout">>]
      [] proc.kind = "SubprocessError" ->
           [raised |-> FALSE, ok |-> FALSE,
            output |-> <<"Subprocess error: ", proc.detail>>]
      [] proc.kind = "OSError" ->
           [raised |-> FALSE, ok |-> FALSE, output |-> <<"OS error: ", proc.detail>>]
      [] OTHER -> [raised |-> TRUE, ok |-> FALSE, output |-> NotApplied]

\* run_applescript: the return statement of the try block and the three
\* except clauses; any other exception leaves the function
run_applescript(proc) ==
    CASE proc.kind = "exit" ->
           [raised |-> FALSE, ok |-> proc.returncode = 0,
            output |-> RStrip(LStrip(proc.stdout))]
      [] proc.kind = "TimeoutExpired" ->
           [raised |-> FALSE, ok |-> FALSE, output |-> <<"Timeout">>]
      [] proc.kind = "SubprocessError" ->
           [raised |-> FALSE, ok |-> FALSE,
            output |-> <<"Subprocess error: ", proc.detail>>]
      [] proc.kind = "OSError" ->
           [raised |-> FALSE, ok |-> FALSE, output |-> <<"OS error: ", proc.detail>>]
      [] OTHER -> [raised |-> TRUE, ok |-> FALSE, output |-> NotApplied]

RunApplescript ==
    /\ pc = "idle"
    /\ pc' = "done"
    /\ app' = [app EXCEPT !.ret = run_applescript(app.proc)]
    /\ UNCHANGED <<cli, osc, window, attempt, waited, escLeft, escThen, branch, tfResult,
                   lastCheck, lengthBars, ui, obs, out>>

NextApplescript == RunApplescript

SpecApplescript == InitApplescript /\ [][NextApplescript]_vars

---------------------------------------------------------------------------
(* core.get_arrangement_audio_range, applied to every Live set of up to
   RangeTracks tracks with up to RangeClips clips each.  Beats are whole
   numbers here. *)

RangeTracks == 2
RangeClips == 2
beats_per_bar == 4

ClipInputs == [start_time : {0, 2, 8}, length : {4}]
TrackInputs ==
    [muted : BOOLEAN, foldable : BOOLEAN, clips : SeqsUpTo(ClipInputs, RangeClips)]

InitRange ==
    /\ pc = "idle" /\ window = T_Main
    /\ attempt = 0 /\ waited = 0 /\ escLeft = 0 /\ escThen = "none"
    /\ branch = "none" /\ tfResult = "none"
    /\ lastCheck = NoCheck /\ lengthBars = 0
    /\ ui = UiInit /\ obs = ObsInit /\ out = OutInit
    /\ osc = OscInit /\ cli = CliInit
    /\ \E tracks \in SeqsUpTo(TrackInputs, RangeTracks) :
          app = [AppInit EXCEPT !.tracks = tracks]

\* int(n / d) for whole n and d > 0: the quotient rounded towards zero
IntDiv(n, d) == IF n >= 0 THEN n \div d ELSE -((-n) \div d)

Min(a, b) == IF a <= b THEN a ELSE b
Max(a, b) == IF a >= b THEN a ELSE b

\* float('inf'), as a number above every beat
Infinity == 1000

\* the loop over the tracks, from track track_idx on; acc holds
\* earliest_start, latest_end and has_clips.  The subscript
\* clips[0]['start_time'] raises TypeError on a Clip object.
RECURSIVE ScanTracks(_, _, _)
ScanTracks(tracks, track_idx, acc) ==
    IF track_idx > Len(tracks) THEN acc
    ELSE LET track == tracks[track_idx]
             clips == track.clips
         IN  IF track.muted \/ track.foldable \/ Len(clips) = 0
             THEN ScanTracks(tracks, track_idx + 1, acc)
             ELSE IF ~ClipIsSubscriptable
             THEN [acc EXCEPT !.raised = TRUE]
             ELSE ScanTracks(tracks, track_idx + 1,
                    [acc EXCEPT !.has_clips = TRUE,
                                !.earliest_start = Min(@, clips[1].start_time),
                                !.latest_end =
                                    Max(@, clips[Len(clips)].start_time
                                           + clips[Len(clips)].length)])

\* get_arrangement_audio_range
get_arrangement_audio_range(tracks) ==
    LET acc == ScanTracks(tracks, 1, [raised |-> FALSE, has_clips |-> FALSE,
                                      earliest_start |-> Infinity, latest_end |-> 0])
        length_beats == acc.latest_end - acc.earliest_start
    IN  IF Len(tracks) = 0 THEN [NoRange EXCEPT !.kind = "None"]
        ELSE IF acc.raised THEN [NoRange EXCEPT !.kind = "TypeError"]
        ELSE IF ~acc.has_clips THEN [NoRange EXCEPT !.kind = "None"]
        ELSE [kind |-> "AudioRange",
              start_beats |-> acc.earliest_start,
              end_beats |-> acc.latest_end,
              start_bar |-> IntDiv(acc.earliest_start, beats_per_bar) + 1,
              length_bars |-> IntDiv(length_beats + beats_per_bar - 1, beats_per_bar)]

GetArrangementAudioRange ==
    /\ pc = "idle"
    /\ pc' = "done"
    /\ app' = [app EXCEPT !.range = get_arrangement_audio_range(app.tracks)]
    /\ UNCHANGED <<cli, osc, window, attempt, waited, escLeft, escThen, branch, tfResult,
                   lastCheck, lengthBars, ui, obs, out>>

NextRange == GetArrangementAudioRange

SpecRange == InitRange /\ [][NextRange]_vars

---------------------------------------------------------------------------
(* core.sanitize_filename and server.sanitize_filename, applied to every
   name of up to MaxNameLen characters *)

MaxNameLen == 3

NameChars == {"a", "_", " ", "\t", "/", "*"}

\* gui_automation.INVALID_FILENAME_CHARS, which core imports
INVALID_FILENAME_CHARS == <<"<", ">", ":", "\"", "/", "\\", "|", "?", "*">>

\* server.sanitize_filename: its local invalid_chars
invalid_chars == <<"<", ">", ":", "\"", "/", "\\", "|", "?", "*">>

\* str.replace(char, "_")
Replace(s, char) == [i \in 1..Len(s) |-> IF s[i] = char THEN "_" ELSE s[i]]

\* for char in chars: result = result.replace(char, "_")
RECURSIVE ReplaceEach(_, _)
ReplaceEach(result, chars) ==
    IF chars = << >> THEN result
    ELSE ReplaceEach(Replace(result, Head(chars)), Tail(chars))

\* core.sanitize_filename
core_sanitize_filename(name) ==
    RStrip(LStrip(ReplaceEach(name, INVALID_FILENAME_CHARS)))

\* Faulty variant of server_sanitize_filename: the result is not stripped
server_sanitize_filename_NoStrip(name) ==
    ReplaceEach(name, invalid_chars)

\* server.sanitize_filename
server_sanitize_filename(name) ==
    RStrip(LStrip(ReplaceEach(name, invalid_chars)))

InitSanitize ==
    /\ pc = "idle" /\ window = T_Main
    /\ attempt = 0 /\ waited = 0 /\ escLeft = 0 /\ escThen = "none"
    /\ branch = "none" /\ tfResult = "none"
    /\ lastCheck = NoCheck /\ lengthBars = 0
    /\ ui = UiInit /\ obs = ObsInit /\ out = OutInit
    /\ osc = OscInit /\ cli = CliInit
    /\ \E name \in SeqsUpTo(NameChars, MaxNameLen) :
          app = [AppInit EXCEPT !.name = name]

\* core.sanitize_filename(name)
SanitizeCore ==
    /\ pc = "idle"
    /\ pc' = "sf_server"
    /\ app' = [app EXCEPT !.core = core_sanitize_filename(app.name)]
    /\ UNCHANGED <<cli, osc, window, attempt, waited, escLeft, escThen, branch, tfResult,
                   lastCheck, lengthBars, ui, obs, out>>

\* server.sanitize_filename(name)
SanitizeServer ==
    /\ pc = "sf_server"
    /\ pc' = "sf_again"
    /\ app' = [app EXCEPT !.server = server_sanitize_filename(app.name)]
    /\ UNCHANGED <<cli, osc, window, attempt, waited, escLeft, escThen, branch, tfResult,
                   lastCheck, lengthBars, ui, obs, out>>

\* core.sanitize_filename(core.sanitize_filename(name))
SanitizeAgain ==
    /\ pc = "sf_again"
    /\ pc' = "done"
    /\ app' = [app EXCEPT !.again = core_sanitize_filename(app.core)]
    /\ UNCHANGED <<cli, osc, window, attempt, waited, escLeft, escThen, branch, tfResult,
                   lastCheck, lengthBars, ui, obs, out>>

NextSanitize ==
    \/ SanitizeCore
    \/ SanitizeServer
    \/ SanitizeAgain

SpecSanitize == InitSanitize /\ [][NextSanitize]_vars

---------------------------------------------------------------------------
(* Properties *)

\* the call has returned
Done == pc = "done"

\* safe_export_with_filename has returned (False, message)
ExportFailed == Done /\ out.result = "failure" /\ out.step # "none"

\* the title contains "Save" or "Export"
IsDialogTitle(t) ==
    Contains(SAVE_DIALOG_NAME, t) \/ Contains(EXPORT_DIALOG_PREFIX, t)

\* C1: a select-all (Cmd+A) is issued only when the window-title check that
\* immediately precedes it saw a title containing "Save" or "Export"; never
\* after a check that saw another title, and never without a check
\* immediately before it.
C1_SelectAllOnlyAfterSafeCheck ==
    ui.selectGate # NoTitle => IsSafe(ui.selectGate)

C3_TypedOnlyAfterSaveRecheck ==
    ui.typeGate # NoTitle =>
        /\ Contains(SAVE_DIALOG_NAME, ui.selectGate)
        /\ Contains(SAVE_DIALOG_NAME, ui.typeGate)
        /\ ~ui.typeMoved

\* C4: when _type_filename_in_save_dialog reports failure, the Enter that
\* starts the render is not sent and the attempt does not succeed.
C4_FilenameFailureAborts ==
    tfResult = "fail" => ~ui.start /\ out.result # "success"

\* C5: when the title read after the export shortcut does not contain
\* "Export", the call fails at the open-export-dialog step and the Escape
\* keys sent during the whole call number exactly AbortEscapes (3).
C5_MismatchThreeEscapes ==
    (Done /\ out.kind = "expected_export") =>
        /\ out.result = "failure"
        /\ out.step = "open_export_dialog"
        /\ ui.escapes = AbortEscapes

\* C6: whenever safe_export_with_filename returns failure, at least one
\* Escape was sent after the failing step and before the return.
C6_FailureDismisses ==
    ExportFailed => out.escSince >= 1

C6_Witness ==
    ExportFailed /\ out.step = "wait_completion" /\ out.escSince = AbortEscapes

\* C7: export_track never raises: every call ends in a returned result
\* (TypeError is the exception of export_track's own code).
C7_NoExceptionEscapes ==
    ~(out.result = "raised" /\ out.kind = "TypeError")

\* C8: in every branch, the first poll of the completion wait that reads a
\* title containing "Save" is the last poll, and the attempt fails.
C8_SaveStopsPolling ==
    /\ ~obs.afterSave
    /\ (Done /\ obs.saveSeen) => out.result = "failure"

\* C9: if every poll of the completion wait read a title containing
\* "Export" or "Save", the call returns failure with a timed-out error.
C9_NeverClosedTimesOut ==
    (Done /\ waited >= 1 /\ obs.allDialog) =>
        /\ out.result = "failure"
        /\ out.kind \in {"timeout", "timeout_titled"}

\* C9 as amended: if every title read of the completion wait (each poll and,
\* in _wait_for_export_completion, the final check after the polls)
\* contained "Export" or "Save", the call returns failure: with the
\* save-still-open error when a poll of the Save-dialog branch read "Save",
\* and otherwise with a timed-out error after MaxWait polls.
C9_NeverClosedFails ==
    (Done /\ waited >= 1 /\ obs.allDialog /\ ~obs.finalClosed) =>
        /\ out.result = "failure"
        /\ IF branch = "save" /\ obs.saveSeen
           THEN out.kind = "save_still_open"
           ELSE out.kind \in {"timeout", "timeout_titled"} /\ waited = MaxWait

C9_Witness ==
    /\ Done /\ waited = MaxWait /\ obs.allDialog /\ ~obs.finalClosed
    /\ branch = "subconfirm" /\ out.kind = "timeout"

\* C10: when Live was not seen frontmost at any of the MaxRetries activation
\* attempts, the export shortcut is never sent and the call does not succeed.
C10_ActivationErrorSurfaced ==
    out.exhausted => ~ui.shortcut /\ out.result # "success"

\* C11: when the title read right after the export shortcut does not contain
\* "Export", the attempt ends in failure at the open-export-dialog step with
\* the title that was read in its message; the shortcut is not sent a second
\* time, and no Enter, click, select-all or text is sent.
C11_MismatchEndsAttempt ==
    /\ (pc = "escaping" /\ escThen = "raise" /\ escLeft = AbortEscapes) =>
           out.title = lastCheck
    /\ out.kind = "expected_export" =>
           /\ ~Contains(EXPORT_DIALOG_PREFIX, out.title)
           /\ ui.shortcuts = 1
           /\ ~ui.confirm /\ ~ui.start /\ ~ui.proceed /\ ~ui.clicked /\ ~ui.tab
           /\ ui.selectGate = NoTitle /\ ui.typeGate = NoTitle
           /\ ui.typedValue = 0
           /\ Done => out.result = "failure" /\ out.step = "open_export_dialog"

C11_Witness ==
    /\ Done /\ out.kind = "expected_export" /\ out.title = T_Browser
    /\ out.result = "failure" /\ ui.shortcuts = 1

\* the classification of a title that C12 states
Classify(t) ==
    IF Contains(SAVE_DIALOG_NAME, t) THEN "SAVE"
    ELSE IF Contains(EXPORT_DIALOG_PREFIX, t) THEN "EXPORT"
    ELSE IF t = << >> THEN "NONE"
    ELSE "UNKNOWN"

\* the confirm step has just branched on the title it read (lastCheck)
JustBranched ==
    /\ lastCheck # NoCheck
    /\ \/ pc \in {"goto_folder", "tf_check", "sub_check"}
       \/ pc = "w12_poll" /\ waited = 0

\* C12: the branch taken after the confirm step is a function of the class
\* of the title read, with SAVE taking precedence: a title containing "Save"
\* (also one that contains "Export" too) takes the Save-dialog branch, a
\* title containing "Export" and not "Save" the sub-confirmation branch, and
\* the empty title and every other title the same third branch.
C12_BranchFollowsClass ==
    JustBranched =>
        branch = CASE Classify(lastCheck) = "SAVE" -> "save"
                   [] Classify(lastCheck) = "EXPORT" -> "subconfirm"
                   [] OTHER -> "direct"

C12_Witness ==
    JustBranched /\ lastCheck = T_Both /\ branch = "save" /\ ui.confirm

\* C13: verify_in_dialog reports is_safe = True exactly when the title it
\* read contains "Save" or "Export", and is_safe = False for every title
\* read that failed.
C13_SafeIffDialogTitle ==
    (Done /\ out.kind \in {"is_safe", "not_safe"}) =>
        /\ out.kind = "is_safe" <=> IsDialogTitle(out.title)
        /\ ~obs.readOk => out.kind = "not_safe"

C13_Witness ==
    /\ Done /\ out.kind = "not_safe" /\ ~obs.readOk
    /\ out.title = T_Timeout /\ window = T_Export

\* C14: every call of select_all_and_delete, whatever the front window,
\* raises a RuntimeError whose message says the function is disabled and can
\* delete tracks; it sends no key and runs no script.
C14_SelectAllAndDeleteDisabled ==
    out.step = "select_all_and_delete" =>
        /\ ui = UiInit
        /\ lastCheck = NoCheck
        /\ Done =>
              /\ out.result = "raised" /\ out.kind = "RuntimeError"
              /\ Contains(<<"disabled">>, out.message)
              /\ Contains(<<"can delete tracks">>, out.message)

C14_Witness ==
    /\ Done /\ out.step = "select_all_and_delete" /\ out.result = "raised"
    /\ window = T_Save

\* the render-range entry has returned from its read-back step
RangeEntered ==
    Done /\ out.kind \in {"set_render_length", "value_not_set", "unverified"}

\* C15: set_export_render_range returns success only if a render length was
\* read back and it is within 0.5 bar (2 quarters) of the length asked for;
\* and whenever the value read back is farther away it returns failure with
\* the message that names the expected and the observed value.
C15_SuccessOnlyIfReadBackClose ==
    RangeEntered =>
        LET d == obs.readBack - 4 * lengthBars
            dist == IF d < 0 THEN -d ELSE d
        IN  /\ out.result = "success" => obs.readBack >= 0 /\ dist <= 2
            /\ (obs.readBack >= 0 /\ dist > 2) =>
                   out.result = "failure" /\ out.kind = "value_not_set"

\* the positions of _set_render_range_via_clicks
RangeEntryPcs ==
    {"sr_import", "sr_position", "sr_click", "sr_selectall", "sr_type",
     "sr_tab", "sr_readback"}

\* a step taken inside the range entry leaves the Enter records alone, and
\* the step at the confirm position sends Tab
RangeEntryStepSendsNoEnter ==
    pc \in RangeEntryPcs =>
        /\ ui'.enters = ui.enters
        /\ ui'.confirm = ui.confirm /\ ui'.start = ui.start
        /\ (pc = "sr_tab" /\ pc' # pc) => ui'.tab

\* C16: no step of the numeric range entry (_set_render_range_via_clicks)
\* sends Enter; the step that confirms the typed value sends Tab.
C16_RangeEntrySendsNoEnter == [][RangeEntryStepSendsNoEnter]_vars

C16_Witness ==
    /\ RangeEntered /\ out.kind = "set_render_length"
    /\ ui.tab /\ ui.typedValue = lengthBars /\ ui.enters = 0

\* the happy path of C17: the title after the confirm held "Save", the
\* filename was typed, and the first poll of the completion wait read a
\* title with neither "Save" nor "Export"
SavePathClosedAtFirstPoll ==
    /\ Done /\ branch = "save" /\ tfResult = "ok"
    /\ waited = 1 /\ ~obs.allDialog

\* C17: when every primitive succeeds and the titles read are Export after
\* the shortcut, Save after the confirm and a closed dialog at the first
\* completion poll, an export called with filename F returns success and
\* reports the filename F followed by ".wav".
C17_HappyPathFilename ==
    SavePathClosedAtFirstPoll =>
        /\ out.result = "success"
        /\ out.filename \in {F_Bass, F_Auto}
        /\ out.final = out.filename \o <<".wav">>

C17_Witness ==
    /\ SavePathClosedAtFirstPoll /\ out.frontSeen /\ lastCheck = T_Main
    /\ out.filename = <<"bass_Amin_128bpm">>
    /\ out.final = <<"bass_Amin_128bpm", ".wav">>

\* C18: when the title read after the confirm contains "Export" and not
\* "Save" (the sub-confirmation branch), the poll of the completion wait that
\* reads a title containing neither "Export" nor "Save", within the MaxWait
\* polls, ends the call in success; no filename was typed and no Enter sent
\* after the confirm.
C18_SubConfirmationSucceeds ==
    (branch = "subconfirm" /\ ~obs.allDialog) =>
        /\ Done /\ out.result = "success"
        /\ waited \in 1..MaxWait
        /\ ~IsDialogTitle(lastCheck)
        /\ ui.typeGate = NoTitle /\ ui.selectGate = NoTitle
        /\ ~ui.start /\ ui.enters = 1

C18_Witness ==
    /\ Done /\ branch = "subconfirm" /\ out.result = "success"
    /\ waited = 2 /\ lastCheck = T_Browser /\ ui.proceed

\* export_arrangement has returned success = False for a step that comes
\* after open_export_dialog() succeeded
ArrangementFailedAfterOpen ==
    /\ Done /\ out.result = "failure"
    /\ out.step \in {"verify_export", "set_range", "click_export",
                      "wait_completion"}

\* C19: whenever export_arrangement returns failure after the export dialog
\* was opened (title mismatch, render-range failure, failed click on Export,
\* failed or timed-out completion wait), at least one Escape was sent after
\* the failing step.
C19_ArrangementFailureDismisses ==
    ArrangementFailedAfterOpen => out.escSince >= 1

\* C20: in the batch path each confirm Enter and the go-to-folder typing is
\* sent only right after a title check that saw the expected dialog: a title
\* containing "Export" for the Enter that confirms the Export dialog, one
\* containing "Save" for the go-to-folder typing and for the Enter that
\* saves.
C20_BatchKeysAfterCheck ==
    \A i \in DOMAIN ui.batchKeys :
        LET k == ui.batchKeys[i]
        IN  IF k.key = "confirm_enter"
            THEN Contains(EXPORT_DIALOG_PREFIX, k.gate)
            ELSE Contains(SAVE_DIALOG_NAME, k.gate)

BatchPcs ==
    {"ba_activate", "ba_open", "ba_enter", "ba_goto", "tf_check", "tf_select",
     "tf_type", "start_enter"}

\* the j-th thing a serial loop does: select, export, returned, delay for
\* track 0, then the same for track 1, ...
SerialEvent(j) ==
    [ev |-> CASE (j - 1) % 4 = 0 -> "select"
              [] (j - 1) % 4 = 1 -> "export"
              [] (j - 1) % 4 = 2 -> "returned"
              [] OTHER -> "delay",
     track |-> (j - 1) \div 4]

\* C22: export_group over n tracks is a serial loop: track i+1 is selected
\* and its keys are sent only after the export attempt of track i has
\* returned and one delay has been made; the loop makes n-1 delays, none
\* after the last track, and returns one result for each track.
C22_GroupLoopSerial ==
    out.group # << >> =>
        LET g == out.group
        IN  /\ \A j \in DOMAIN g.events : g.events[j] = SerialEvent(j)
            /\ pc \in BatchPcs =>
                   /\ g.events # << >>
                   /\ g.events[Len(g.events)] = [ev |-> "export", track |-> g.i]
            /\ Len(ui.batchKeys) <= 3 * (g.i + 1)
            /\ (pc = "done" /\ g.n > 0 /\ g.i = g.n) =>
                   /\ g.delays = g.n - 1
                   /\ Len(g.events) = 4 * g.n - 1
                   /\ Len(g.results) = g.n

C22_Witness ==
    /\ pc = "done" /\ out.group # << >>
    /\ out.group.n = 2 /\ out.group.i = 2 /\ out.group.delays = 1
    /\ ~out.group.results[1].success /\ out.group.results[2].success

\* C23: the event of a running query is set, and so the query completed,
\* only when a message on the queried address was handled since the query
\* registered its event (messages on another address never do it); and a
\* query during which no message on its address was handled returns None.
C23_QueryMatchedByAddress ==
    /\ (pc \in QueryPcs /\ osc.events[osc.address] = "set") => osc.arrived
    /\ (pc = "done" /\ osc.result # "none" /\ ~osc.arrived) =>
           osc.result = "None"

C23_Witness ==
    /\ pc = "done" /\ osc.result = "None"
    /\ ~osc.arrived /\ osc.stray /\ osc.handling = << >>

\* the handler of the subcommand has returned or raised
Exited == pc = "exited"

\* C24: the exit code of a subcommand is 2 exactly when its connection check
\* failed, and then no core operation was called, no message was sent and no
\* UI action was made; after a successful check the exit code is 0 when the
\* operation succeeded and 1 when it failed.
C24_ExitCodes ==
    /\ Exited => (cli.exit = EXIT_CONNECTION_FAILED <=> cli.connected = "no")
    /\ cli.connected = "no" =>
          cli.ops = {} /\ cli.sent = << >> /\ ui = UiInit /\ out = OutInit
    /\ (Exited /\ cli.connected = "yes") =>
          /\ cli.result = "success" => cli.exit = EXIT_SUCCESS
          /\ cli.result # "success" => cli.exit = EXIT_ERROR

C24_Witness ==
    /\ Exited /\ cli.command = "select"
    /\ cli.connected = "yes" /\ cli.exit = EXIT_ERROR

\* C25: on a host system other than Darwin the export command exits with
\* code 1 without constructing an OSC client, checking the connection,
\* calling export_track or making any UI action.
C25_ExportNeedsDarwin ==
    (cli.command = "export" /\ cli.system # "Darwin") =>
        /\ pc \in {"cmd", "exited"}
        /\ Exited => cli.exit = EXIT_ERROR
        /\ cli.clients = 0 /\ cli.connected = "unchecked"
        /\ cli.ops = {} /\ cli.sent = << >>
        /\ ui = UiInit /\ out = OutInit

C25_Witness ==
    Exited /\ cli.command = "export" /\ cli.system = "Linux"

\* C29: select_track_by_index(i) with n tracks returns failure with an
\* "Invalid" message and sends no select-track message when i < 0 or i >= n;
\* otherwise it sends exactly one select-track message, for index i, and
\* returns success with a message carrying the track's name.
C29_SelectTrackByIndex ==
    ("select_track_by_index" \in cli.ops) =>
        IF cli.index < 0 \/ cli.index >= cli.count
        THEN /\ cli.result = "failure"
             /\ cli.message.text = "Invalid track index. Valid range: 0-"
             /\ cli.sent = << >>
        ELSE /\ cli.result = "success"
             /\ cli.message.text = "Selected track"
             /\ cli.message.index = cli.index
             /\ cli.message.name \in CliTrackNames
             /\ cli.sent = <<SelectTrackMessage(cli.index)>>

C29_Witness ==
    /\ "select_track_by_index" \in cli.ops
    /\ cli.result = "failure" /\ cli.index = cli.count /\ cli.count > 0

\* the ways subprocess.run ends that run_applescript expects
ExpectedProc == app.proc.kind \in {"exit", "TimeoutExpired", "SubprocessError", "OSError"}

\* C26 as stated: run_applescript does not raise on an expected failure; it
\* returns (True, stripped stdout) exactly when the script exits with code
\* 0, (False, stdout) on another exit code, (False, "Timeout") on a timeout
\* and (False, detail) on a subprocess or system error.
C26_Original ==
    (pc = "done" /\ ExpectedProc) =>
        /\ ~app.ret.raised
        /\ app.ret.ok <=> (app.proc.kind = "exit" /\ app.proc.returncode = 0)
        /\ app.ret.ok => app.ret.output = RStrip(LStrip(app.proc.stdout))
        /\ (app.proc.kind = "exit" /\ app.proc.returncode # 0) =>
               app.ret.output = app.proc.stdout
        /\ app.proc.kind = "TimeoutExpired" => app.ret.output = <<"Timeout">>
        /\ app.proc.kind \in {"SubprocessError", "OSError"} =>
               app.ret.output[Len(app.ret.output)] = app.proc.detail

\* C26, amended: as stated, except that on an exit code other than 0 the
\* output returned is the stripped stdout too.
C26_StrippedOnEveryExit ==
    (pc = "done" /\ ExpectedProc) =>
        /\ ~app.ret.raised
        /\ app.ret.ok <=> (app.proc.kind = "exit" /\ app.proc.returncode = 0)
        /\ app.proc.kind = "exit" =>
               app.ret.output = RStrip(LStrip(app.proc.stdout))
        /\ app.proc.kind = "TimeoutExpired" => app.ret.output = <<"Timeout">>
        /\ app.proc.kind \in {"SubprocessError", "OSError"} =>
               app.ret.output[Len(app.ret.output)] = app.proc.detail

C26_Witness ==
    /\ pc = "done" /\ app.proc.kind = "exit" /\ app.proc.returncode = 1
    /\ app.proc.stdout = <<"o", "\n">> /\ app.ret.output = <<"o">>

\* the nine characters the claim names
NamedChars == {"<", ">", ":", "\"", "/", "\\", "|", "?", "*"}

\* result is name[from..to] with each named character replaced by one
\* underscore and every other character as it was
ReplacedSlice(name, result, from, to) ==
    /\ Len(result) = to - from + 1
    /\ \A i \in 1..Len(result) :
          result[i] = IF name[from + i - 1] \in NamedChars THEN "_"
                      ELSE name[from + i - 1]

\* result is name without its leading and trailing whitespace, its named
\* characters replaced
SanitizedFrom(name, result) ==
    \E from \in 1..(Len(name) + 1), to \in 0..Len(name) :
        /\ \A i \in 1..(from - 1) : name[i] \in Whitespace
        /\ \A i \in (to + 1)..Len(name) : name[i] \in Whitespace
        /\ from <= to => name[from] \notin Whitespace /\ name[to] \notin Whitespace
        /\ from > to => from = to + 1
        /\ ReplacedSlice(name, result, from, to)

\* C30: sanitize_filename gives the name without leading and trailing
\* whitespace, each of < > : " / \ | ? * replaced by one underscore and
\* every other character unchanged; the result holds none of the nine
\* characters; sanitizing the result again changes nothing; core's and
\* server's functions give the same result.
C30_SanitizeFilename ==
    /\ app.core # NotApplied =>
          /\ SanitizedFrom(app.name, app.core)
          /\ \A i \in 1..Len(app.core) : app.core[i] \notin NamedChars
    /\ app.server # NotApplied => app.server = app.core
    /\ app.again # NotApplied => app.again = app.core

C30_Witness ==
    /\ pc = "done"
    /\ app.name = <<" ", "/", "\t">>
    /\ app.core = <<"_">> /\ app.server = <<"_">> /\ app.again = <<"_">>

\* C27: every failure message of safe_export_with_filename names the step
\* that failed and the window title observed there (the message of the Save
\* dialog found still open names that dialog).
C27_FailureNamesStepAndTitle ==
    ExportFailed =>
        /\ out.kind # "none"
        /\ out.title # NoTitle \/ out.kind = "save_still_open"

\* the counters of the running call are within their limits
WithinLimits ==
    /\ attempt < MaxRetries
    /\ waited <= MaxWait
    /\ ui.escapes <= 2 * AbortEscapes

\* a call that has returned stays returned, with the outcome it returned
OutcomeStays == Done => (pc' = "done" /\ out' = out)

\* C28: every call of safe_export_with_filename returns, with one outcome
\* that never changes afterwards, after at most 5 activation attempts, 120
\* polls and the final check, and 6 Escape actions.
C28_CallTerminates ==
    /\ (pc # "idle") ~> (Done /\ out.result \in {"success", "failure"})
    /\ []WithinLimits
    /\ [][OutcomeStays]_vars

C28_Witness ==
    /\ Done /\ out.result = "failure" /\ out.kind = "timeout_titled"
    /\ waited = MaxWait /\ ui.escapes = AbortEscapes

\* the clips of the tracks that are neither muted nor groups
AudibleClips ==
    UNION {{app.tracks[t].clips[c] : c \in 1..Len(app.tracks[t].clips)} :
           t \in {u \in 1..Len(app.tracks) :
                     ~app.tracks[u].muted /\ ~app.tracks[u].foldable}}

\* C31: for a Live set with audio content get_arrangement_audio_range
\* returns a range of bars that covers every clip of the tracks that are
\* neither muted nor groups: no clip starts before the first bar of the
\* range and none ends after its last bar.
C31_RangeCoversAudio ==
    (pc = "done" /\ app.range.kind # "none" /\ AudibleClips # {}) =>
        /\ app.range.kind = "AudioRange"
        /\ \A clip \in AudibleClips :
              /\ beats_per_bar * (app.range.start_bar - 1) <= clip.start_time
              /\ beats_per_bar * (app.range.start_bar - 1 + app.range.length_bars)
                    >= clip.start_time + clip.length

C33_SuccessNeedsGoodRead ==
    (Done /\ out.result = "success" /\ out.kind = "export_complete") =>
        /\ obs.endRead = "ok"
        /\ ~IsDialogTitle(lastCheck)

\* a step taken after a failure was detected: the error is about to be
\* raised or caught, or the dismissal that goes with it is under way
FailureDetected == pc \in {"handler", "escaping"}

C34_Step ==
    FailureDetected =>
        /\ [ui' EXCEPT !.escapes = ui.escapes] = ui
        /\ ui'.escapes >= ui.escapes

\* C34: once safe_export_with_filename has detected a failure, the only UI
\* actions it issues before returning are Escape keys: no shortcut, Enter,
\* select-all, click or text is sent after that point.
C34_OnlyEscapesAfterFailure == [][C34_Step]_vars

\* a call that had sent the export shortcut and Enter, then failed and
\* returned after the three Escapes of its handler
C34_Witness ==
    /\ Done
    /\ out.result = "failure"
    /\ out.escSince = AbortEscapes
    /\ ui.shortcut
    /\ ui.enters > 0

\* the program is inside the loop of _activate_and_verify
ActivationPcs == {"act_activate", "act_check"}

C35_Step ==
    \* the first attempt is attempt 0
    /\ (pc \notin ActivationPcs /\ pc' = "act_activate") => attempt' = 0
    \* every attempt is one of range(max_retries)
    /\ pc' = "act_activate" => attempt' < MaxRetries
    \* another attempt follows only a check that did not find Live
    \* frontmost, and it is the next one
    /\ (pc = "act_check" /\ pc' = "act_activate") =>
          attempt' = attempt + 1 /\ ~out'.frontSeen
    \* once Live was observed frontmost the loop is over
    /\ out'.frontSeen => pc' \notin ActivationPcs
    \* a failed activate call raises AbletonActivationError at once
    /\ (pc = "act_activate" /\ pc' \notin ActivationPcs) =>
          /\ out'.activateFailed
          /\ pc' = "handler"
          /\ out'.kind = "activation_failed"
    /\ out'.activateFailed => pc' \notin ActivationPcs

\* C35: _activate_and_verify makes at most max_retries (5) activation
\* attempts, makes none after the first at which Live is observed frontmost,
\* and a failure of the activate call itself raises AbletonActivationError
\* immediately, without further attempts.
C35_ActivationAttempts == [][C35_Step]_vars

\* the activate call of the fifth attempt has failed
C35_Witness ==
    /\ pc = "handler"
    /\ out.activateFailed
    /\ attempt = MaxRetries - 1

\* export_group has returned its list of results
GroupReturned ==
    pc = "done" /\ out.group # << >> /\ out.group.i = out.group.n

\* the results are one per enabled child track with audio, in the order of
\* the children; each of these tracks was selected and its export was
\* attempted; output_path is set exactly for the successes
OnePerTrackInOrder(g) ==
    /\ Len(g.results) =
          Cardinality({k \in DOMAIN g.child_tracks :
                         g.child_tracks[k].is_enabled
                         /\ g.child_tracks[k].has_audio})
    /\ \A j \in DOMAIN g.results :
          LET r == g.results[j]
          IN  /\ r.track_name \in DOMAIN g.child_tracks
              /\ g.child_tracks[r.track_name].is_enabled
              /\ g.child_tracks[r.track_name].has_audio
              /\ \A l \in DOMAIN g.results :
                    j < l => r.track_name < g.results[l].track_name
              /\ (r.output_path # NoPath) <=> r.success
              /\ \E e \in DOMAIN g.events :
                    g.events[e] = [ev |-> "select", track |-> j - 1]
              /\ \E e \in DOMAIN g.events :
                    g.events[e] = [ev |-> "export", track |-> j - 1]

QueryReturned == pc = "done" /\ osc.queries > 0 /\ osc.result # "none"

\* C37: with the receiver thread delivering responses concurrently, query
\* returns None only when its wait has run for the full timeout without its
\* event being set; a late response to an earlier query on the same address
\* never makes a later query return None early.
C37_NoneOnlyAfterTimeout ==
    (QueryReturned /\ osc.result = "None") => osc.how = "timeout"

\* C38: a value other than None returned by query is a response produced
\* for that very request, never the response to an earlier request on the
\* same address (or a message that answers no request).
C38_AnswerIsForThisRequest ==
    (QueryReturned /\ osc.result # "None") => osc.answer = osc.queries

===========================================================================
